---- MODULE Spec2Model ----
(***************************************************************************)
(* Model of the service-provisioning subsystem of docker-forklift:         *)
(* forklift/services/base.py (Service.provide, Service.cleanup, the        *)
(* availability classifier, the container lifecycle helpers),              *)
(* forklift/base.py (wait_for) and forklift/drivers.py                     *)
(* (Driver.environment), with the concrete service classes that the        *)
(* providers are taken from.                                               *)
(*                                                                         *)
(*   Spec        calls of provide and cleanup, one provider per step       *)
(*   SpecEnsure  calls of _ensure_container, one Docker call per step      *)
(*   SpecWait    wait_until_available and available on scripted checks     *)
(*   SpecDriver  Driver.environment on given service environments          *)
(*   SpecMain    Forklift.main (forklift/__init__.py), one service a step  *)
(*   SpecSatellite, SpecSatelliteFair                                      *)
(*               start_satellite and wait_for_pid, one system call a step  *)
(*   SpecURL     URLService and Elasticsearch URLs, parsed by character    *)
(***************************************************************************)
EXTENDS Integers, Sequences, FiniteSets, TLC

VARIABLES containers, cache, call, services, cleaned, lastCleanup, ens, wt, drv,
          fk, sat, url, rec, dk, pg, nm, rd, cc

vars == <<containers, cache, call, services, cleaned, lastCleanup, ens, wt, drv,
          fk, sat, url, rec, dk, pg, nm, rd, cc>>

None == "None"

(***************************************************************************)
(* Bounds                                                                  *)
(***************************************************************************)
\* number of service instances one run holds (returned by provide)
MaxServices == 1
\* retry budget given to wait_until_available by the provider factories
WaitRetries == 2

(***************************************************************************)
(* Strings are sequences of characters, so that container_name_for can be  *)
(* computed as the code computes it.                                       *)
(***************************************************************************)
RECURSIVE Replace(_, _, _)
\* str.replace(old, new) for a single character old and a string new
Replace(s, old, new) ==
    IF s = <<>> THEN <<>>
    ELSE (IF Head(s) = old THEN new ELSE <<Head(s)>>) \o Replace(Tail(s), old, new)

\* forklift/services/base.py container_name_for
container_name_for(image, application_id) ==
    Replace(image, "/", <<"_">>) \o <<"_", "_">> \o application_id

\* forklift/services/base.py cache_directory: os.path.join of the cache path
\* of 'forklift' (save_cache_path, taken as one path segment) and the name;
\* os.path.join lets a second path that starts with '/' stand alone
cache_directory(container_name) ==
    IF container_name # <<>> /\ Head(container_name) = "/"
    THEN container_name
    ELSE <<"~/.cache/forklift", "/">> \o container_name

RabbitMQImage == <<"r","a","b","b","i","t","m","q">>
PostgreSQLImage == <<"p","a","i","n","t","e","d","f","o","x","/","p","o","s","t","g","r","e","s","q","l">>
RedisImage == <<"d","o","c","k","e","r","f","i","l","e","/","r","e","d","i","s">>

Images == {RabbitMQImage, PostgreSQLImage, RedisImage}

\* the application ids the runs are made for
AppIds == {<<"t","e","s","t">>}

Names == {container_name_for(i, a) : i \in Images, a \in AppIds}

(***************************************************************************)
(* Exceptions and their class hierarchy                                    *)
(***************************************************************************)
Exceptions == {"ProviderNotAvailable", "DependencyRequired", "DockerImageRequired",
               "ContainerRefusingConnection", "OSError", "SocketError",
               "CalledProcessError", "EOFError", "APIError",
               "ImproperlyConfigured", "URLError", "ConnectionError",
               "HTTPException", "ValueError", "UnboundLocalError",
               "KeyboardInterrupt", "TypeError"}

\* direct base class of an exception class ("Exception" is the root)
BaseOf(e) ==
    CASE e = "DependencyRequired" -> "ProviderNotAvailable"
      [] e = "DockerImageRequired" -> "DependencyRequired"
      [] e = "ContainerRefusingConnection" -> "ProviderNotAvailable"
      [] e = "SocketError" -> "OSError"
      [] e = "URLError" -> "OSError"
      [] e = "ConnectionError" -> "OSError"
      [] OTHER -> "Exception"

RECURSIVE IsSubclass(_, _)
IsSubclass(e, base) ==
    IF e = base THEN TRUE
    ELSE IF e = "Exception" THEN FALSE
    ELSE IsSubclass(BaseOf(e), base)

\* socket.error, which is OSError itself (an alias since Python 3.3); the
\* errors the socket calls raise ("SocketError") are subclasses of it
socket_error == "OSError"

\* "except <tuple>" catches e
Catches(tuple, e) == \E b \in tuple : IsSubclass(e, b)

(***************************************************************************)
(* Service classes                                                         *)
(***************************************************************************)
ServiceClasses == {"TestService", "FussyService", "Syslog", "Email",
                   "RabbitMQ", "PostgreSQL", "Redis"}

\* Service.providers of each class, in declared order
providers(cls) ==
    CASE cls = "TestService" -> <<"here", "here_occasionally">>
      [] cls = "FussyService" -> <<"one", "two">>
      [] cls = "Syslog" -> <<"manual", "stdout">>
      [] cls = "Email" -> <<"localhost", "stdout">>
      [] cls = "RabbitMQ" -> <<"localhost", "container">>
      [] cls = "PostgreSQL" -> <<"localhost", "container">>
      [] cls = "Redis" -> <<"localhost", "container">>

\* getattr(provider_func, 'transient', False): set by @transient_provider
transient_provider(cls, provider) ==
    provider \in {"here_occasionally", "stdout", "container"}

allow_override(cls) ==
    CASE cls = "TestService" -> {"host", "one", "two"}
      [] cls = "FussyService" -> {}
      [] cls = "Syslog" -> {"host", "port", "proto"}
      [] cls = "Email" -> {"host", "port"}
      [] cls = "RabbitMQ" -> {"user", "password", "host", "port", "path", "vhost"}
      [] cls = "PostgreSQL" -> {"name", "host", "port", "user", "password"}
      [] cls = "Redis" -> {"host", "db_index"}
      [] cls = "Memcache" -> {"key_prefix", "host"}

allow_override_list(cls) ==
    CASE cls = "TestService" -> {"list"}
      [] cls = "RabbitMQ" -> {"urls", "hosts"}
      [] OTHER -> {}

TEMPORARY_AVAILABILITY_ERRORS(cls) ==
    CASE cls \in {"Syslog", "Email", "Redis"} -> {socket_error}
      [] cls = "PostgreSQL" -> {"ProviderNotAvailable"}
      [] cls = "Elasticsearch" ->
            {"ConnectionError", "HTTPException", "ProviderNotAvailable",
             socket_error, "ValueError"}
      [] OTHER -> {"ProviderNotAvailable", socket_error}

PERMANENT_AVAILABILITY_ERRORS(cls) ==
    CASE cls = "PostgreSQL" -> {"ProviderNotAvailable", "CalledProcessError", "OSError"}
      [] cls = "Elasticsearch" -> {"URLError"}
      [] OTHER -> {}

CONTAINER_IMAGE(cls) ==
    CASE cls = "RabbitMQ" -> RabbitMQImage
      [] cls = "PostgreSQL" -> PostgreSQLImage
      [] cls = "Redis" -> RedisImage

DEFAULT_PORT(cls) ==
    CASE cls = "RabbitMQ" -> 5672
      [] cls = "PostgreSQL" -> 5432
      [] cls = "Redis" -> 6379
      [] cls = "Syslog" -> 514
      [] cls = "Memcache" -> 11211
      [] OTHER -> 0

NoDir == <<>>
\* data_dir argument the class's container provider passes to ensure
DataDir(cls) == IF cls = "PostgreSQL" THEN <<"/", "d", "a", "t", "a">> ELSE NoDir

\* What check_available can do on an instance: return "True" or "False",
\* or raise one of the exceptions its code can raise.
check_available(inst) ==
    CASE inst.cls = "TestService" -> {"True"}
      [] inst.cls = "FussyService" -> {"True", "ProviderNotAvailable"}
      [] inst.cls = "Syslog" -> IF inst.host = None THEN {"False"} ELSE {"True"}
      [] inst.cls = "Email" -> {"True", "SocketError"}
      [] inst.cls = "RabbitMQ" -> {"True", "ProviderNotAvailable"}
      [] inst.cls = "PostgreSQL" ->
            {"True", "ProviderNotAvailable", "CalledProcessError", "OSError"}
      [] inst.cls = "Redis" -> {"True", "SocketError", "EOFError"}

(***************************************************************************)
(* Availability classifier                                                 *)
(***************************************************************************)
Returned(v) == [ret |-> v, exc |-> None]
Raised(e) == [ret |-> None, exc |-> e]

\* what a polling loop did: its return value or the exception that left it,
\* and the number of calls of func it made
Polled(ret, exc, calls) == [ret |-> ret, exc |-> exc, calls |-> calls]

RECURSIVE wait_for_from(_, _, _, _)
\* attempts retry..retries of the loop of wait_for; outs[k] is what func
\* does on attempt k
wait_for_from(outs, expected_exceptions, retries, retry) ==
    LET o == outs[retry] IN
    IF o = "True" THEN Polled("True", None, retry)
    ELSE IF o = "False" THEN
        IF retry = retries THEN Polled("False", None, retry)
        ELSE wait_for_from(outs, expected_exceptions, retries, retry + 1)
    ELSE IF Catches(expected_exceptions, o) THEN
        IF retry = retries THEN Polled(None, o, retry)
        ELSE wait_for_from(outs, expected_exceptions, retries, retry + 1)
    ELSE Polled(None, o, retry)

\* wait_for re-raising an expected exception on whatever attempt it occurs
wait_for_nothing_expected(outs, expected_exceptions, retries) ==
    IF retries < 1 THEN Polled(None, "UnboundLocalError", 0)
    ELSE wait_for_from(outs, {}, retries, 1)

\* wait_for swallowing an expected exception on the last attempt as well
wait_for_swallowing_last(outs, expected_exceptions, retries) ==
    IF retries < 1 THEN Polled(None, "UnboundLocalError", 0)
    ELSE IF Catches(expected_exceptions,
                    wait_for_from(outs, expected_exceptions, retries, 1).exc)
    THEN Polled("False", None, retries)
    ELSE wait_for_from(outs, expected_exceptions, retries, 1)

\* wait_for; with no attempt to make, "return return_value" reads a local
\* that was never bound
wait_for(outs, expected_exceptions, retries) ==
    IF retries < 1 THEN Polled(None, "UnboundLocalError", 0)
    ELSE wait_for_from(outs, expected_exceptions, retries, 1)

\* wait_until_available catching nothing: wait_for alone
wait_until_available_uncaught(cls, outs, retries) ==
    [ret |-> wait_for(outs, TEMPORARY_AVAILABILITY_ERRORS(cls), retries).ret,
     exc |-> wait_for(outs, TEMPORARY_AVAILABILITY_ERRORS(cls), retries).exc,
     calls |-> wait_for(outs, TEMPORARY_AVAILABILITY_ERRORS(cls), retries).calls,
     reported |-> None]

\* Service.wait_until_available; reported is the error it printed, if any
wait_until_available(cls, outs, retries) ==
    LET r == wait_for(outs, TEMPORARY_AVAILABILITY_ERRORS(cls), retries) IN
    IF r.exc # None /\ Catches(PERMANENT_AVAILABILITY_ERRORS(cls), r.exc)
    THEN [ret |-> "False", exc |-> None, calls |-> r.calls, reported |-> r.exc]
    ELSE [ret |-> r.ret, exc |-> r.exc, calls |-> r.calls, reported |-> None]

\* available without the clause for the permanent errors
available_temporary_only(cls, o) ==
    IF o \in {"True", "False"} THEN Returned(o)
    ELSE IF Catches(TEMPORARY_AVAILABILITY_ERRORS(cls), o) THEN Returned("False")
    ELSE Raised(o)

\* Service.available, o being what check_available does
available(cls, o) ==
    IF o \in {"True", "False"} THEN Returned(o)
    ELSE IF Catches(TEMPORARY_AVAILABILITY_ERRORS(cls), o) THEN Returned("False")
    ELSE IF Catches(PERMANENT_AVAILABILITY_ERRORS(cls), o) THEN Returned("False")
    ELSE Raised(o)

(***************************************************************************)
(* Exception values                                                        *)
(***************************************************************************)
\* an exception instance: its class, its message and (DependencyRequired)
\* its command attribute
Exc(name, message, command) == [name |-> name, message |-> message, command |-> command]

NoException == Exc(None, <<>>, <<>>)

\* DockerImageRequired.__init__ without the command keyword
DockerImageRequired_no_command(image) ==
    Exc("DockerImageRequired",
        <<"D","o","c","k","e","r"," ","i","m","a","g","e"," ">> \o image
            \o <<" ","i","s"," ","r","e","q","u","i","r","e","d",".">>,
        <<>>)

\* DockerImageRequired(image): message "Docker image {0} is required." and
\* command 'docker pull {0}'
DockerImageRequired(image) ==
    Exc("DockerImageRequired",
        <<"D","o","c","k","e","r"," ","i","m","a","g","e"," ">> \o image
            \o <<" ","i","s"," ","r","e","q","u","i","r","e","d",".">>,
        <<"d","o","c","k","e","r"," ","p","u","l","l"," ">> \o image)

\* What "raise ContainerRefusingConnection(image, port)" raises: __init__
\* passes message=... by keyword to Exception.__init__, which takes no
\* keyword arguments, so the construction itself ends in TypeError.
ContainerRefusingConnection(image, port) ==
    Exc("TypeError",
        <<"ContainerRefusingConnection() takes no keyword arguments">>, <<>>)

\* ProviderNotAvailable("Cannot connect to Docker daemon.")
CannotConnect == Exc("ProviderNotAvailable", <<"Cannot connect to Docker daemon.">>, <<>>)

(***************************************************************************)
(* Container lifecycle                                                     *)
(***************************************************************************)
\* ContainerInfo namedtuple; NoContainer stands for "no container_info"
ContainerInfo(host, port, data_dir, name, new) ==
    [host |-> host, port |-> port, data_dir |-> data_dir, name |-> name, new |-> new]

NoContainer == ContainerInfo(None, 0, NoDir, <<>>, FALSE)

\* Docker state: d.containers[name] is "absent", "stopped" or "running";
\* d.cache is the set of cache directories that exist.
Docker(c, dirs) == [containers |-> c, cache |-> dirs]

\* destroy_container stopping the container without removing it
destroy_container_stop_only(d, container_name, rm_ok) ==
    IF d.containers[container_name] = "absent"
    THEN [exc |-> "APIError", docker |-> d]
    ELSE [exc |-> None,
          docker |-> Docker([d.containers EXCEPT ![container_name] = "stopped"],
                            IF rm_ok THEN d.cache \ {cache_directory(container_name)}
                            ELSE d.cache)]

\* destroy_container: docker stop, docker rm, then "sudo rm -rf" of the cache
\* directory, whose failure (CalledProcessError) is ignored.
destroy_container(d, container_name, rm_ok) ==
    IF d.containers[container_name] = "absent"
    THEN [exc |-> "APIError", docker |-> d]
    ELSE [exc |-> None,
          docker |-> Docker([d.containers EXCEPT ![container_name] = "absent"],
                            IF rm_ok THEN d.cache \ {cache_directory(container_name)}
                            ELSE d.cache)]

\* get_or_create_container: <<created, status>> or DockerImageRequired
get_or_create_container(d, container_name, image_present) ==
    IF d.containers[container_name] # "absent"
    THEN [exc |-> None, created |-> FALSE, docker |-> d]
    ELSE IF ~image_present
    THEN [exc |-> "DockerImageRequired", created |-> FALSE, docker |-> d]
    ELSE [exc |-> None, created |-> TRUE,
          docker |-> Docker([d.containers EXCEPT ![container_name] = "stopped"], d.cache)]

\* _start_container: docker start with the port binding and, when a data
\* directory was asked for, the bind of the cache directory (which Docker
\* creates on the host)
start_container(d, container_name, data_dir, cached_dir) ==
    Docker([d.containers EXCEPT ![container_name] = "running"],
           IF data_dir # NoDir THEN d.cache \cup {cached_dir} ELSE d.cache)

\* _ensure_container.  env.daemon: the Docker daemon answers; env.image: the
\* image is present locally; env.port_open:
\* the forwarded port accepts a connection within the retries of
\* _wait_for_port; env.rm_ok: removing a cache directory succeeds.
ensure_container(d, image, port, application_id, data_dir, env) ==
    LET container_name == container_name_for(image, application_id)
        cached_dir == IF data_dir # NoDir THEN cache_directory(container_name) ELSE NoDir
        got == get_or_create_container(d, container_name, env.image)
        started == IF got.docker.containers[container_name] # "running"
                   THEN start_container(got.docker, container_name, data_dir, cached_dir)
                   ELSE got.docker
    IN  IF ~env.daemon
        THEN [exc |-> CannotConnect.name, info |-> NoContainer, docker |-> d]
        ELSE IF got.exc # None
        THEN [exc |-> got.exc, info |-> NoContainer, docker |-> d]
        ELSE IF ~env.port_open
        THEN [exc |-> ContainerRefusingConnection(image, port).name, info |-> NoContainer,
              docker |-> IF got.created
                         THEN destroy_container(started, container_name, env.rm_ok).docker
                         ELSE started]
        ELSE [exc |-> None,
              info |-> ContainerInfo("172.17.0.2", port, cached_dir, container_name, got.created),
              docker |-> started]

(***************************************************************************)
(* The same lifecycle one Docker call at a time, for a call of             *)
(* _ensure_container that can be interrupted between two of them           *)
(***************************************************************************)
\* retry budget of _wait_for_port (30 in the code)
PortRetries == 2

\* the service classes that have a container provider
ContainerClasses == {"RabbitMQ", "PostgreSQL", "Redis"}

\* a lookup by name that finds nothing
inspect_container_not_found(d, container_name) == "absent"

\* a lookup that only finds running containers
inspect_container_running_only(d, container_name) ==
    IF d.containers[container_name] = "running" THEN "running" ELSE "absent"

\* docker_client.inspect_container(container_name): the status of the
\* container, "absent" standing for the APIError of a name that is unknown
inspect_container(d, container_name) == d.containers[container_name]

\* docker_client.create_container(image, name=container_name, ...): Docker
\* keeps names unique and refuses (APIError) a name that is in use
create_container(d, container_name) ==
    IF d.containers[container_name] # "absent"
    THEN [exc |-> "APIError", docker |-> d]
    ELSE [exc |-> None,
          docker |-> Docker([d.containers EXCEPT ![container_name] = "stopped"], d.cache)]

\* docker_client.stop(container_name)
stop(d, container_name) ==
    Docker([d.containers EXCEPT ![container_name] = "stopped"], d.cache)

\* docker_client.remove_container(container_name)
remove_container(d, container_name) ==
    Docker([d.containers EXCEPT ![container_name] = "absent"], d.cache)

\* rm_tree_root_owned(path): "sudo rm -rf", which may fail
rm_tree_root_owned(d, path, rm_ok) ==
    Docker(d.containers, IF rm_ok THEN d.cache \ {path} ELSE d.cache)

\* the outcome of the previous call of ensure
NoPrev ==
    [image |-> <<>>, application_id |-> <<>>, outcome |-> None, created |-> FALSE,
     info |-> NoContainer]

\* docker_client.port(container_name, port)[0]['HostPort']: the host ports
\* Docker may bind for 'port_bindings': {port: None}
HostPorts == {49153, 49154}

\* A call of _ensure_container.  daemon and image_present are what the call
\* meets; existed, creates, starts, destroys and conflict record what it
\* found and did; pending is the exception the handler of the port wait will
\* re-raise.
IdleEnsure ==
    [pc |-> "idle", cls |-> None, image |-> <<>>, port |-> 0, application_id |-> <<>>,
     data_dir |-> NoDir, container_name |-> <<>>, cached_dir |-> NoDir,
     daemon |-> TRUE, image_present |-> TRUE, existed |-> FALSE,
     created |-> FALSE, creates |-> 0, starts |-> 0, destroys |-> 0,
     conflict |-> FALSE, host_port |-> 0, port_never_open |-> FALSE,
     pending |-> NoException, outcome |-> None, exc |-> NoException,
     info |-> NoContainer, prev |-> NoPrev]

\* the call ends by raising x
Raise(e, x) == [e EXCEPT !.pc = "done", !.outcome = "raised", !.exc = x]

\* a handler of the port wait that destroys the container whoever created it
port_wait_failed_destroying(e, x) == [e EXCEPT !.pc = "stop", !.pending = x]

\* "except: if created: destroy_container(container_name); raise"
port_wait_failed(e, x) ==
    IF e.created THEN [e EXCEPT !.pc = "stop", !.pending = x] ELSE Raise(e, x)

(***************************************************************************)
(* Service instances and provider factories                                *)
(***************************************************************************)
\* built_by records the provider factory that constructed the instance
Instance(cls, host, built_by) ==
    [cls |-> cls, provided_by |-> None, container_info |-> NoContainer, host |-> host,
     built_by |-> built_by]

NoInstance == Instance(None, None, None)

\* the host a provider's instance is constructed with
ProviderHost(cls, provider) ==
    IF cls \in {"FussyService"} \/ provider \in {"here_occasionally", "manual"}
    THEN None
    ELSE IF cls = "RabbitMQ" /\ provider = "container" THEN "172.17.0.2"
    ELSE "localhost"

\* the provider's factory waits for the service (wait_until_available)
factory_waits(cls, provider) ==
    \/ provider = "container" /\ cls # "Redis"
    \/ provider = "stdout" /\ cls = "Email"

\* provider_func(application_id): the provider classmethods.
\*   The container providers ensure the container, build the instance and
\*   (RabbitMQ through Service.container, PostgreSQL) wait_until_available;
\*   Email.stdout starts the satellite and waits; the others only construct.
\* env.outs[k] is what check_available does on attempt k of the wait.
provider_func(cls, provider, application_id, d, env) ==
    LET built == Instance(cls, ProviderHost(cls, provider), provider) IN
    IF provider = "container" THEN
        LET c == ensure_container(d, CONTAINER_IMAGE(cls), DEFAULT_PORT(cls),
                                  application_id, DataDir(cls), env)
            w == IF factory_waits(cls, provider)
                 THEN wait_until_available(cls, env.outs, WaitRetries)
                 ELSE Returned("True")
        IN  IF c.exc # None THEN [exc |-> c.exc, inst |-> NoInstance, docker |-> c.docker]
            ELSE IF w.exc # None THEN [exc |-> w.exc, inst |-> NoInstance, docker |-> c.docker]
            ELSE [exc |-> None, inst |-> [built EXCEPT !.container_info = c.info],
                  docker |-> c.docker]
    ELSE IF factory_waits(cls, provider) THEN
        LET w == wait_until_available(cls, env.outs, WaitRetries) IN
        IF w.exc # None THEN [exc |-> w.exc, inst |-> NoInstance, docker |-> d]
        ELSE [exc |-> None, inst |-> built, docker |-> d]
    ELSE [exc |-> None, inst |-> built, docker |-> d]

\* the override keys a run supplies, and the values ("None": not given)
Keys == {"host", "bogus"}
OverrideValues == {None, "v"}

\* Service._set_overrides
set_overrides_ignored(cls, service, overrides) == [exc |-> None, inst |-> service]

set_overrides(cls, service, overrides) ==
    LET allowed_overrides == allow_override(cls) \cup allow_override_list(cls) IN
    IF \E key \in Keys : overrides[key] # None /\ key \notin allowed_overrides
    THEN [exc |-> "ImproperlyConfigured", inst |-> service]
    ELSE [exc |-> None,
          inst |-> IF overrides["host"] # None
                   THEN [service EXCEPT !.host = overrides["host"]]
                   ELSE service]

\* cleanup destroying the container whether or not this run created it
cleanup_ignoring_new(service, d, rm_ok) ==
    IF service.provided_by # "container"
    THEN [ret |-> "False", exc |-> None, docker |-> d, destroyed |-> 0]
    ELSE LET r == destroy_container(d, service.container_info.name, rm_ok) IN
         [ret |-> IF r.exc = None THEN "True" ELSE None, exc |-> r.exc,
          docker |-> r.docker, destroyed |-> 1]

\* cleanup without the test of provided_by
cleanup_any_provider(service, d, rm_ok) ==
    IF service.container_info.new
    THEN LET r == destroy_container(d, service.container_info.name, rm_ok) IN
         [ret |-> IF r.exc = None THEN "True" ELSE None, exc |-> r.exc,
          docker |-> r.docker, destroyed |-> 1]
    ELSE [ret |-> "True", exc |-> None, docker |-> d, destroyed |-> 0]

\* Service.cleanup
cleanup(service, d, rm_ok) ==
    IF service.provided_by # "container"
    THEN [ret |-> "False", exc |-> None, docker |-> d, destroyed |-> 0]
    ELSE IF service.container_info.new
    THEN LET r == destroy_container(d, service.container_info.name, rm_ok) IN
         [ret |-> IF r.exc = None THEN "True" ELSE None, exc |-> r.exc,
          docker |-> r.docker, destroyed |-> 1]
    ELSE [ret |-> "True", exc |-> None, docker |-> d, destroyed |-> 0]

(***************************************************************************)
(* Service.provide, one iteration of its loop per step                     *)
(***************************************************************************)
IdleCall ==
    [pc |-> "idle", cls |-> None, application_id |-> <<>>, transient |-> FALSE,
     overrides |-> [k \in Keys |-> None], idx |-> 1, tried |-> <<>>,
     diag |-> <<>>, cleanups |-> 0, destroyed |-> 0, outcome |-> None,
     exc |-> None, msg |-> <<>>, inst |-> NoInstance, created |-> {}]

NoCleanup == [idx |-> 0, ret |-> None, exc |-> None, destroyed |-> 0, rm_ok |-> TRUE]

\* one entry of the record of a call: what became of a provider, and the
\* exception that ended its iteration, if any
Tried(provider, result, exc) == [provider |-> provider, result |-> result, exc |-> exc]

\* the loop walking the provider list from its end
current_provider_reversed(c) == providers(c.cls)[Len(providers(c.cls)) + 1 - c.idx]

\* cls.providers[idx], the provider of the current iteration
current_provider(c) == providers(c.cls)[c.idx]

\* an except clause matching the class itself only, not its subclasses
except_ProviderNotAvailable_exact(e) == e = "ProviderNotAvailable"

\* "except ProviderNotAvailable as exc"
except_ProviderNotAvailable(e) == IsSubclass(e, "ProviderNotAvailable")

\* tagging every instance with the name of the container provider
set_provided_by_container(service, provider) == [service EXCEPT !.provided_by = "container"]

\* setattr(service, 'provided_by', provider)
set_provided_by(service, provider) == [service EXCEPT !.provided_by = provider]

\* the loop falling through without raising
no_providers_silent(c) == [c EXCEPT !.pc = "done", !.outcome = "returned"]

\* the ImproperlyConfigured raised after the loop
no_providers(c) ==
    [c EXCEPT !.pc = "done", !.outcome = "raised", !.exc = "ImproperlyConfigured",
              !.msg = <<"No available providers for service {0}.", c.cls>>]

\* the transient flag of the call being ignored
skip_provider_never(cls, provider, transient) == FALSE

\* "if transient and not getattr(provider_func, 'transient', False): continue"
skip_provider(cls, provider, transient) ==
    transient /\ ~transient_provider(cls, provider)

\* the exception of available() re-raised with no cleanup of the instance
reraise_without_cleanup(c, d, provider, service, exc, rm_ok) ==
    [call |-> [c EXCEPT !.pc = "done", !.outcome = "raised", !.exc = exc,
                        !.inst = service,
                        !.tried = Append(@, Tried(provider, "available raised", exc))],
     docker |-> d]

\* "except: service.cleanup(); raise" around service.available(): exc is
\* what available() raised; an exception of cleanup() itself takes its place
reraise_after_cleanup(c, d, provider, service, exc, rm_ok) ==
    LET cl == cleanup(service, d, rm_ok) IN
    [call |-> [c EXCEPT !.pc = "done", !.outcome = "raised",
                        !.exc = IF cl.exc # None THEN cl.exc ELSE exc,
                        !.cleanups = @ + 1, !.destroyed = @ + cl.destroyed,
                        !.inst = service,
                        !.tried = Append(@, Tried(provider, "available raised", exc))],
     docker |-> cl.docker]

\* The body of the loop of provide for cls.providers[idx], in Docker state d:
\* the call record after the iteration and the Docker state it leaves.
provide_iteration(c, d, env) ==
    LET provider == current_provider(c)
        next == [c EXCEPT !.idx = c.idx + 1]
        f == provider_func(c.cls, provider, c.application_id, d, env)
        service == set_provided_by(f.inst, provider)
        o == set_overrides(c.cls, service, c.overrides)
        a == available(c.cls, env.check)
    IN  IF skip_provider(c.cls, provider, c.transient)
        THEN [call |-> [next EXCEPT !.tried = Append(@, Tried(provider, "skipped", None))],
              docker |-> d]
        ELSE IF f.exc # None /\ except_ProviderNotAvailable(f.exc)
        THEN [call |-> [next EXCEPT
                          !.tried = Append(@, Tried(provider, "not available", f.exc)),
                          !.diag = Append(@, provider)],
              docker |-> f.docker]
        ELSE IF f.exc # None
        THEN [call |-> [c EXCEPT !.pc = "done", !.outcome = "raised", !.exc = f.exc,
                          !.tried = Append(@, Tried(provider, "factory raised", f.exc))],
              docker |-> f.docker]
        ELSE IF o.exc # None
        THEN [call |-> [c EXCEPT !.pc = "done", !.outcome = "raised", !.exc = o.exc,
                          !.msg = <<"Invalid parameter {0} for service {1}.", c.cls>>,
                          !.tried = Append(@, Tried(provider, "override rejected", o.exc))],
              docker |-> f.docker]
        ELSE IF a.exc # None
        THEN reraise_after_cleanup(c, f.docker, provider, o.inst, a.exc, env.rm_ok)
        ELSE IF a.ret = "True"
        THEN [call |-> [c EXCEPT !.pc = "done", !.outcome = "returned", !.inst = o.inst,
                          !.tried = Append(@, Tried(provider, "available", None))],
              docker |-> f.docker]
        ELSE [call |-> [next EXCEPT !.tried = Append(@, Tried(provider, "unavailable", None))],
              docker |-> f.docker]

\* The environment of one iteration: what Docker, the forwarded port, the
\* removal of a cache directory and check_available do.  A part the iteration
\* cannot reach (the port of a daemon that is down, the checks of a provider
\* that is skipped, ...) is left at its default.
Envs(cls, provider, transient, overrides) ==
    LET built == Instance(cls, ProviderHost(cls, provider), provider)
        final == set_overrides(cls, built, overrides).inst
        outs == IF factory_waits(cls, provider)
                THEN [1..WaitRetries -> check_available(built)]
                ELSE {[k \in 1..WaitRetries |-> "True"]}
        base == [daemon |-> TRUE, image |-> TRUE, port_open |-> TRUE, rm_ok |-> TRUE,
                 outs |-> [k \in 1..WaitRetries |-> "True"], check |-> "True"]
    IN  IF skip_provider(cls, provider, transient) THEN {base}
        ELSE IF provider # "container"
        THEN {[base EXCEPT !.outs = o, !.check = c] :
                 o \in outs, c \in check_available(final)}
        ELSE {[base EXCEPT !.daemon = FALSE], [base EXCEPT !.image = FALSE]}
             \cup {[base EXCEPT !.port_open = FALSE, !.rm_ok = r] : r \in BOOLEAN}
             \cup {[base EXCEPT !.rm_ok = r, !.outs = o, !.check = c] :
                      r \in BOOLEAN, o \in outs, c \in check_available(final)}

\* no wait_until_available, available or wait_for call is being looked at
IdleWait ==
    [pc |-> "idle", cls |-> None, retries |-> 0, outs |-> <<>>,
     waited |-> [ret |-> None, exc |-> None, calls |-> 0, reported |-> None],
     checked |-> [ret |-> None, exc |-> None],
     expected |-> {}, polled |-> Polled(None, None, 0)]

(***************************************************************************)
(* Driver.environment.  A dict is a function on EnvKeys, None standing for *)
(* a key the dict does not have.                                           *)
(***************************************************************************)
\* number of services a driver is given
MaxEnvServices == 2

\* number of services one Forklift.main call may require
MaxRequired == 3

\* number of URLs a service is constructed from
MaxURLs == 2
\* number of assignments made to the parts of one service
MaxSets == 2

EnvKeys == {"ENVIRONMENT", "DEVNAME", "SITE_PROTOCOL", "SITE_DOMAIN", "BAR"}
\* the keys and values the services and the added environment supply
SuppliedKeys == {"ENVIRONMENT", "BAR"}
EnvValues == {"additional", "other"}

NoEnv == [k \in EnvKeys |-> None]

\* the dicts a service's environment() or the added environment may be
SuppliedEnvs ==
    {e \in [EnvKeys -> EnvValues \cup {None}] : \A k \in EnvKeys \ SuppliedKeys : e[k] = None}

\* Driver.base_environment
base_environment ==
    [k \in EnvKeys |->
        CASE k = "ENVIRONMENT" -> "dev_local"
          [] k = "DEVNAME" -> "devname"
          [] k = "SITE_PROTOCOL" -> "http"
          [] k = "SITE_DOMAIN" -> "localhost:8000"
          [] OTHER -> None]

\* an update that keeps the value of a key the dict already has
update_keeping(env, other) ==
    [k \in EnvKeys |-> IF env[k] # None THEN env[k] ELSE other[k]]

\* env.update(other)
update(env, other) ==
    [k \in EnvKeys |-> IF other[k] # None THEN other[k] ELSE env[k]]

RECURSIVE update_services(_, _)
\* "for service in self.services: env.update(service.environment())"
update_services(env, service_envs) ==
    IF service_envs = <<>> THEN env
    ELSE update_services(update(env, Head(service_envs)), Tail(service_envs))

\* Driver.environment, service_envs[i] being services[i].environment()
environment(service_envs, added_environment) ==
    update(update_services(base_environment, service_envs), added_environment)

\* no Driver.environment call is being looked at
IdleDriver == [pc |-> "idle", services |-> <<>>, added_environment |-> NoEnv, env |-> NoEnv]

(***************************************************************************)
(* Forklift.main (forklift/__init__.py)                                    *)
(***************************************************************************)
\* what self.services[service].provide(self.conf.get(service)) does for one
\* requested service: returns an instance, raises ImproperlyConfigured (no
\* provider available), or raises KeyError (no such service registered)
ProvideOutcomes == {"provided", "ImproperlyConfigured", "KeyError"}

\* what driver.run(*command) does: returns the exit status of the target, or
\* raises ImproperlyConfigured itself (Docker.run, no image to run)
NoStatus == -1

RunResults == {[status |-> 0, exc |-> None], [status |-> 2, exc |-> None],
               [status |-> NoStatus, exc |-> "ImproperlyConfigured"]}

\* no Forklift.main call is being looked at
IdleMain == [pc |-> "idle", help |-> FALSE, required |-> <<>>,
             run_result |-> [status |-> 0, exc |-> None],
             services |-> <<>>, failed |-> 0, driver |-> FALSE, runs |-> 0,
             run_services |-> <<>>, status |-> NoStatus, exc |-> None]

\* except ImproperlyConfigured as ex: print(ex); return 1
main_except_launching(f) == [f EXCEPT !.pc = "driver", !.driver = TRUE]

main_except(f) == [f EXCEPT !.pc = "returned", !.status = 1]

\* one element of the list comprehension, for required_services[i]
main_provide(f, i) ==
    LET outcome == f.required[i] IN
    CASE outcome = "provided" ->
           [f EXCEPT !.services = Append(f.services, i)]
      [] outcome = "ImproperlyConfigured" ->
           main_except([f EXCEPT !.failed = i, !.exc = "ImproperlyConfigured"])
      [] OTHER ->
           [f EXCEPT !.pc = "raised", !.exc = outcome]

\* return driver.run(*command)
main_run(f) ==
    LET ran == [f EXCEPT !.runs = f.runs + 1, !.run_services = f.services] IN
    IF f.run_result.exc # None
    THEN [ran EXCEPT !.pc = "raised", !.exc = f.run_result.exc]
    ELSE [ran EXCEPT !.pc = "returned", !.status = f.run_result.status]

(***************************************************************************)
(* wait_for_pid and the satellite process (forklift/base.py,               *)
(* forklift/services/satellite.py).  One process, the target, is watched:  *)
(* the Forklift process that calls start_satellite, or the process whose   *)
(* pid a caller hands to wait_for_pid.  It is running, a zombie (it has    *)
(* terminated and its parent has not collected it yet) or gone.  init      *)
(* never terminates; a process whose parent has exited is a child of init. *)
(***************************************************************************)
\* who calls wait_for_pid: the satellite forked by start_satellite, the
\* parent of the watched process (test_wait_for_child), or a process that is
\* not its parent (test_wait_for_parent)
Scenarios == {"start_satellite", "wait_for_child", "wait_for_parent"}

TargetStates == {"running", "zombie", "gone"}

\* the stop argument of start_satellite: not given, or a callback and what
\* it returns
StopCallbacks == {"None", "returns_None", "returns_3"}

\* exit_status = stop() if stop is not None else None; None becomes 0
exit_status(stop_callback) == IF stop_callback = "returns_3" THEN 3 ELSE 0

\* no process is being looked at
IdleSat == [pc |-> "idle", scenario |-> "start_satellite", stop |-> "None",
            target |-> "running", is_child |-> FALSE, pid |-> None,
            caller |-> "idle", slept |-> FALSE, blocked |-> FALSE,
            stops |-> 0, exit |-> NoStatus]

\* os.getppid() in the satellite: the Forklift process while it runs, init
\* once it has exited
getppid(s) == IF s.target = "running" THEN "target" ELSE "init"

\* os.waitpid(pid, 0) does not return yet: pid is a running child
waitpid_blocks(s) == s.is_child /\ s.pid = "target" /\ s.target = "running"

\* os.waitpid(pid, 0): collects the terminated child, or raises OSError
\* (ECHILD) for a pid that is not a child of the caller
waitpid_returning(s) == [s EXCEPT !.pc = "returned"]

waitpid(s) ==
    IF s.is_child /\ s.pid = "target" /\ s.target = "zombie"
    THEN [s EXCEPT !.pc = "returned", !.target = "gone"]
    ELSE [s EXCEPT !.pc = "Process"]

\* proc.status(), or NoSuchProcess
proc_status(s) ==
    CASE s.pid = "init" -> "sleeping"
      [] s.target = "running" -> "sleeping"
      [] s.target = "zombie" -> "zombie"
      [] OTHER -> "NoSuchProcess"

\* while proc.status() not in ('zombie', 'dead')
polling_never(st) == FALSE

polling(st) == st \notin {"zombie", "dead"}

\* one evaluation of the loop condition of wait_for_pid
poll(s) ==
    LET st == proc_status(s) IN
    IF st = "NoSuchProcess" THEN [s EXCEPT !.pc = "returned"]
    ELSE IF polling(st) THEN [s EXCEPT !.pc = "sleep"]
    ELSE [s EXCEPT !.pc = "returned"]

(***************************************************************************)
(* URLs (forklift/services/base.py, urllib.parse).  A URL string is a      *)
(* sequence of characters; it is parsed and put together again character   *)
(* by character as urllib does.  Python's None is the one-element sequence *)
(* NoneStr, which no string of characters equals.                          *)
(***************************************************************************)
NoneStr == <<"None">>

RECURSIVE find(_, _, _)
\* the least index from i on at which s has one of the characters cs, or 0
find(s, cs, i) ==
    IF i > Len(s) THEN 0
    ELSE IF s[i] \in cs THEN i
    ELSE find(s, cs, i + 1)

RECURSIVE rfind(_, _, _)
\* the greatest index up to i at which s has the character c, or 0
rfind(s, c, i) ==
    IF i < 1 THEN 0
    ELSE IF s[i] = c THEN i
    ELSE rfind(s, c, i - 1)

\* str.partition(c): before, separator, after
partition(s, c) ==
    LET partition_at(i) ==
            IF i = 0 THEN <<s, <<>>, <<>>>>
            ELSE <<SubSeq(s, 1, i - 1), <<c>>, SubSeq(s, i + 1, Len(s))>>
    IN partition_at(find(s, {c}, 1))

\* str.rpartition(c)
rpartition(s, c) ==
    LET rpartition_at(i) ==
            IF i = 0 THEN <<<<>>, <<>>, s>>
            ELSE <<SubSeq(s, 1, i - 1), <<c>>, SubSeq(s, i + 1, Len(s))>>
    IN rpartition_at(rfind(s, c, Len(s)))

RECURSIVE split(_, _)
\* str.split(c)
split(s, c) ==
    IF find(s, {c}, 1) = 0 THEN <<s>>
    ELSE <<partition(s, c)[1]>> \o split(partition(s, c)[3], c)

RECURSIVE join(_, _)
\* sep.join(xs)
join(xs, sep) ==
    IF xs = <<>> THEN <<>>
    ELSE IF Len(xs) = 1 THEN xs[1]
    ELSE xs[1] \o sep \o join(Tail(xs), sep)

ascii_uppercase == <<"A", "B", "C", "D", "E", "F", "G", "H", "I", "J", "K", "L", "M", "N", "O", "P", "Q", "R", "S", "T", "U", "V", "W", "X", "Y", "Z">>

ascii_lowercase == <<"a", "b", "c", "d", "e", "f", "g", "h", "i", "j", "k", "l", "m", "n", "o", "p", "q", "r", "s", "t", "u", "v", "w", "x", "y", "z">>

digits == <<"0", "1", "2", "3", "4", "5", "6", "7", "8", "9">>

\* str.lower()
lower(s) ==
    [i \in 1..Len(s) |->
        IF \E j \in 1..26 : ascii_uppercase[j] = s[i]
        THEN ascii_lowercase[CHOOSE j \in 1..26 : ascii_uppercase[j] = s[i]]
        ELSE s[i]]

\* str.isdigit()
isdigit(s) == s # <<>> /\ \A i \in 1..Len(s) : \E j \in 1..10 : digits[j] = s[i]

RECURSIVE int(_)
\* int(s, 10) for a string of digits
int(s) ==
    IF s = <<>> THEN 0
    ELSE int(SubSeq(s, 1, Len(s) - 1)) * 10
         + ((CHOOSE j \in 1..10 : digits[j] = s[Len(s)]) - 1)

RECURSIVE str(_)
\* str(n) for a natural number
str(n) ==
    IF n < 10 THEN <<digits[n + 1]>>
    ELSE str(n \div 10) \o <<digits[(n % 10) + 1]>>

\* urllib.parse scheme_chars
scheme_chars ==
    {ascii_lowercase[j] : j \in 1..26} \cup {ascii_uppercase[j] : j \in 1..26}
        \cup {digits[j] : j \in 1..10} \cup {"+", "-", "."}

\* the schemes of urllib.parse.uses_netloc that occur here
uses_netloc == {<<"h", "t", "t", "p">>, <<"a", "m", "q", "p">>}

\* urllib.parse.ParseResult
ParseResult(scheme, netloc, url_path, params, query, fragment) ==
    [scheme |-> scheme, netloc |-> netloc, path |-> url_path, params |-> params,
     query |-> query, fragment |-> fragment]

\* urllib.parse.urlparse.  urlsplit: the scheme is what precedes the first
\* ':' when it starts with a letter and consists of scheme_chars; if
\* url[:2] == '//' the netloc ends before the first of '/', '?', '#'
\* (_splitnetloc); then url.split('#', 1) and url.split('?', 1).  No URL
\* here has a ';', so params is empty
urlparse(s) ==
    LET urlparse_path(scheme, netloc, before_fragment, fragment) ==
            ParseResult(scheme, netloc, partition(before_fragment, "?")[1], <<>>,
                        partition(before_fragment, "?")[3], fragment)
        urlparse_netloc(scheme, rest, delim) ==
            urlparse_path(scheme, SubSeq(rest, 3, delim - 1),
                          partition(SubSeq(rest, delim, Len(rest)), "#")[1],
                          partition(SubSeq(rest, delim, Len(rest)), "#")[3])
        urlparse_rest(scheme, rest) ==
            IF Len(rest) >= 2 /\ rest[1] = "/" /\ rest[2] = "/"
            THEN urlparse_netloc(scheme, rest,
                                 IF find(rest, {"/", "?", "#"}, 3) = 0 THEN Len(rest) + 1
                                 ELSE find(rest, {"/", "?", "#"}, 3))
            ELSE urlparse_path(scheme, <<>>, partition(rest, "#")[1],
                               partition(rest, "#")[3])
        urlparse_scheme(i) ==
            IF /\ i > 1
               /\ s[1] \in scheme_chars \ ({digits[j] : j \in 1..10} \cup {"+", "-", "."})
               /\ \A j \in 1..(i - 1) : s[j] \in scheme_chars
            THEN urlparse_rest(lower(SubSeq(s, 1, i - 1)), SubSeq(s, i + 1, Len(s)))
            ELSE urlparse_rest(<<>>, s)
    IN urlparse_scheme(find(s, {":"}, 1))

\* ParseResult.geturl: urllib.parse.urlunparse.  urlunsplit: '//' + netloc +
\* path, the path made absolute, then the query and the fragment if not empty
geturl(u) ==
    LET append_if(s, sep, x) == IF x # <<>> THEN s \o sep \o x ELSE s
        geturl_netloc ==
            IF \/ u.netloc # <<>>
               \/ /\ u.scheme \in uses_netloc
                  /\ ~(Len(u.path) >= 2 /\ u.path[1] = "/" /\ u.path[2] = "/")
            THEN <<"/", "/">> \o u.netloc
                 \o (IF u.path # <<>> /\ u.path[1] # "/" THEN <<"/">> ELSE <<>>)
                 \o u.path
            ELSE u.path
    IN append_if(append_if(IF u.scheme # <<>> THEN u.scheme \o <<":">> \o geturl_netloc
                           ELSE geturl_netloc,
                           <<"?">>, u.query),
                 <<"#">>, u.fragment)

\* urllib.parse _NetlocResultMixinStr._userinfo: <<username, password>>, from
\* netloc.rpartition('@') and userinfo.partition(':')
userinfo(u) ==
    LET user_password(up) == <<up[1], IF up[2] = <<>> THEN NoneStr ELSE up[3]>>
        userinfo_of(at) ==
            IF at[2] = <<>> THEN <<NoneStr, NoneStr>>
            ELSE user_password(partition(at[1], ":"))
    IN userinfo_of(rpartition(u.netloc, "@"))

\* urllib.parse _NetlocResultMixinStr._hostinfo: <<hostname, port>>, from
\* hostinfo.partition('['), bracketed.partition(']') and
\* hostinfo.partition(':'); if not port: port = None
hostinfo(u) ==
    LET hostinfo_pair(h, p) == <<h, IF p = <<>> THEN NoneStr ELSE p>>
        bracketed_host_port(b) == hostinfo_pair(b[1], partition(b[3], ":")[3])
        plain_host_port(pl) == hostinfo_pair(pl[1], pl[3])
        hostinfo_of(info) ==
            IF find(info, {"["}, 1) # 0
            THEN bracketed_host_port(partition(partition(info, "[")[3], "]"))
            ELSE plain_host_port(partition(info, ":"))
    IN hostinfo_of(rpartition(u.netloc, "@")[3])

\* ParseResult.username
username(u) == userinfo(u)[1]

\* ParseResult.password
password(u) == userinfo(u)[2]

\* ParseResult.hostname
hostname(u) ==
    LET hostname_of(h) == IF h = <<>> THEN NoneStr ELSE lower(h)
    IN hostname_of(hostinfo(u)[1])

\* ParseResult.port has no value (None); reading it raises ValueError
NoPort == -1

InvalidPort == -2

\* ParseResult.port
port_number(u) ==
    LET port_of(p) ==
            IF p = NoneStr THEN NoPort
            ELSE IF isdigit(p) /\ int(p) <= 65535 THEN int(p)
            ELSE InvalidPort
    IN port_of(hostinfo(u)[2])

\* pipe_split of a tuple of strings; a str is the tuple of that one string
pipe_split(value) ==
    IF Len(value) = 1 /\ find(value[1], {"|"}, 1) # 0
    THEN split(value[1], "|")
    ELSE value

\* the result of replace_part when reading url.port raises
ValueErrorURL == [exc |-> "ValueError"]

\* replace_part(url, **{part: value}) for one of the netloc_parts: the netloc
\* is put together again from the parts the URL has (the port a number, so
\* that 0 counts as none) and the new value; a URL without a host cannot be
\* put together
replace_part(u, part, value) ==
    LET truthy(x) == x # NoneStr /\ x # <<>>
        netloc_host_port(h, p) == IF truthy(p) THEN h \o <<":">> \o p ELSE h
        netloc_userinfo(un, pw) ==
            (IF truthy(un) THEN un ELSE <<>>)
                \o (IF truthy(pw) THEN <<":">> \o pw ELSE <<>>)
        netloc_str(un, pw, h, p) ==
            IF h = NoneStr THEN [exc |-> "TypeError"]
            ELSE IF truthy(un) \/ truthy(pw)
            THEN [u EXCEPT !.netloc = netloc_userinfo(un, pw) \o <<"@">>
                                          \o netloc_host_port(h, p)]
            ELSE [u EXCEPT !.netloc = netloc_host_port(h, p)]
        port_str(n) == IF n \in {NoPort, 0} THEN NoneStr ELSE str(n)
    IN IF port_number(u) = InvalidPort THEN ValueErrorURL
       ELSE netloc_str(IF part = "username" THEN value ELSE username(u),
                       IF part = "password" THEN value ELSE password(u),
                       IF part = "hostname" THEN value ELSE hostname(u),
                       IF part = "port" THEN value ELSE port_str(port_number(u)))

\* the part names of URLService and the ParseResult attribute each one sets
attribute(part) ==
    CASE part = "user" -> "username"
      [] part = "host" -> "hostname"
      [] OTHER -> part

\* the parts set by a URLMultiValueDescriptor, and by a URLDescriptor
multi_parts == {"host", "port"}

single_parts == {"user", "password"}

\* a tuple of URLs some replace_part of which raised
raised(us) == {us[i].exc : i \in {j \in 1..Len(us) : "exc" \in DOMAIN us[j]}}

\* URLDescriptor.__set__: the part of every URL is set to the value
URLDescriptor_set(us, part, value) ==
    [i \in 1..Len(us) |-> replace_part(us[i], attribute(part), value)]

\* URLMultiValueDescriptor.__set__: one URL for each value of pipe_split,
\* made from urls[0]
URLMultiValueDescriptor_set(us, part, value) ==
    LET set_from_first(vs) ==
            [i \in 1..Len(vs) |-> replace_part(us[1], attribute(part), vs[i])]
    IN set_from_first(pipe_split(value))

\* URLDescriptor.__get__ for one URL: getter(url) or default, the default
\* being ''; the port is None for no port, and reading a port that is not a
\* number raises ValueError
get_part(u, part) ==
    LET or_default(x) == IF x = NoneStr THEN <<>> ELSE x
        shown_port(n) ==
            CASE n = InvalidPort -> <<"ValueError">>
              [] n \in {NoPort, 0} -> NoneStr
              [] OTHER -> str(n)
    IN CASE part = "user" -> or_default(username(u))
         [] part = "password" -> or_default(password(u))
         [] part = "host" -> or_default(hostname(u))
         [] part = "port" -> shown_port(port_number(u))
         [] OTHER -> u.path

\* URLService.urls setter, Elasticsearch.urls setter: urlparse(url) for url in
\* pipe_split(value)
urls_setter(value) ==
    LET parse_all(vs) == [i \in 1..Len(vs) |-> urlparse(vs[i])]
    IN parse_all(pipe_split(value))

\* URLService.url_string, Elasticsearch.url_string
url_string_first(us) == geturl(us[1])

url_string(us) == join([i \in 1..Len(us) |-> geturl(us[i])], <<"|">>)

\* Elasticsearch.host setter: every URL gets the netloc
\* '{host}:{port}'.format(host=host, port=url.port)
Elasticsearch_host_set(us, value) ==
    LET host_port_format(u, n) ==
            IF n = InvalidPort THEN ValueErrorURL
            ELSE [u EXCEPT !.netloc = value \o <<":">>
                              \o (IF n = NoPort THEN <<"N", "o", "n", "e">> ELSE str(n))]
    IN [i \in 1..Len(us) |-> host_port_format(us[i], port_number(us[i]))]

\* Elasticsearch.environment()['ELASTICSEARCH_URLS']
ELASTICSEARCH_URLS(us) == url_string(us)

\* the classes whose URLs are looked at
URLClasses == {"URLService", "Elasticsearch"}

\* the URLs a service is constructed from
URLStrings ==
    {<<"h", "t", "t", "p", ":", "/", "/", "a", ":", "9", "2", "0", "0">>,
     <<"h", "t", "t", "p", ":", "/", "/", "b", ":", "9", "2", "0", "0">>,
     <<"H", "T", "T", "P", ":", "/", "/", "a", ":", "9", "2", "0", "0">>,
     <<"h", "t", "t", "p", ":", "/", "/", "a", ":", "9", "2", "0", "0", "?">>,
     <<"h", "t", "t", "p", ":", "/", "/", "u", ":", "p", "@", "[", ":", ":", "1", "]", ":", "9", "2", "0", "0", "/", "x">>,
     <<"h", "t", "t", "p", ":", "/", "/", "u", ":", "p", "@", "a", "/", "x">>}

\* the values assigned to a part: a string, pipe-delimited or not, is a tuple
\* of one string; an iterable of k strings is a tuple of k strings
PartValues(part) ==
    CASE part = "host" -> {<<<<"c">>>>, <<<<"c", "|", "d">>>>, <<<<"d">>, <<"c">>>>}
      [] part = "port" -> {<<<<"1">>>>, <<<<"1", "|", "2">>>>}
      [] part = "user" -> {<<<<"x">>>>}
      [] OTHER -> {<<<<"y">>>>}

NoSet == [part |-> None, value |-> <<>>]

\* no URL service is being looked at
IdleURL == [pc |-> "idle", cls |-> "URLService", input |-> <<>>, urls |-> <<>>,
            string |-> <<>>, prev |-> <<>>, last |-> NoSet, before |-> NoSet,
            sets |-> 0, exc |-> None]

(***************************************************************************)
(* Docker.environment (forklift/drivers.py) and the host of a service.  A  *)
(* service is its class and its hosts: the one string of the attribute     *)
(* host (Redis, Email), or the list hosts (Memcache).                      *)
(***************************************************************************)
\* number of services the Docker driver is given
MaxDockerServices == 2

localhost == <<"l", "o", "c", "a", "l", "h", "o", "s", "t">>

\* ip_address('docker0'): the address of the bridge
docker0 == <<"1", "7", "2", ".", "1", "7", ".", "4", "2", ".", "1">>

\* split_host_port(host_port, default_port): host_port.split(':')
split_host_port(hp, default_port) ==
    IF Len(split(hp, ":")) = 2 THEN <<split(hp, ":")[1], split(hp, ":")[2]>>
    ELSE <<split(hp, ":")[1], default_port>>

\* a service of class cls with the hosts hs
HostService(cls, hs) == [cls |-> cls, hosts |-> hs]

\* service.host: the attribute, or Memcache's property, the hosts without
\* their ports joined by '|'
host_get(service) ==
    IF service.cls = "Memcache"
    THEN join([i \in 1..Len(service.hosts) |->
                  split_host_port(service.hosts[i], str(DEFAULT_PORT("Memcache")))[1]],
              <<"|">>)
    ELSE service.hosts[1]

\* service.host = value: the attribute is replaced; Memcache's setter gives
\* the hosts of value the ports of the former hosts, then DEFAULT_PORT
host_set(service, value) ==
    IF service.cls = "Memcache"
    THEN [service EXCEPT !.hosts =
            [i \in 1..Len(split(value, "|")) |->
                split(value, "|")[i] \o <<":">>
                    \o (IF i <= Len(service.hosts)
                        THEN split_host_port(service.hosts[i],
                                             str(DEFAULT_PORT("Memcache")))[2]
                        ELSE str(DEFAULT_PORT("Memcache")))]]
    ELSE [service EXCEPT !.hosts = <<value>>]

\* the value of the variable of service.environment() that names the hosts:
\* REDIS_HOSTS, EMAIL_HOST (self.host), MEMCACHE_HOSTS ('|'.join(self.hosts))
environment_hosts(service) ==
    IF service.cls = "Memcache" THEN join(service.hosts, <<"|">>)
    ELSE service.hosts[1]

\* the loop of Docker.environment, for one service
localhost_to_docker0(service) ==
    IF "host" \in allow_override(service.cls) /\ host_get(service) = localhost
    THEN host_set(service, docker0)
    ELSE service

\* Docker.environment: the services after the loop
Docker_environment(ss) == [i \in 1..Len(ss) |-> localhost_to_docker0(ss[i])]

\* the services a Docker driver may be given: as the localhost providers
\* make them, with the host overridden, and with hosts elsewhere
DockerServices ==
    {HostService("Redis", <<<<"l", "o", "c", "a", "l", "h", "o", "s", "t", ":", "6", "3", "7", "9">>>>),
     HostService("Redis", <<<<"l", "o", "c", "a", "l", "h", "o", "s", "t">>>>),
     HostService("Redis", <<<<"r", ":", "6", "3", "7", "9">>>>),
     HostService("Email", <<<<"l", "o", "c", "a", "l", "h", "o", "s", "t">>>>),
     HostService("Email", <<<<"m">>>>),
     HostService("Memcache", <<<<"l", "o", "c", "a", "l", "h", "o", "s", "t", ":", "1", "1", "2", "1", "1">>>>),
     HostService("Memcache", <<<<"c", ":", "1", "1", "2", "1", "1">>>>),
     HostService("FussyService", <<<<"f">>>>)}

\* no Docker.environment call is being looked at
IdleDocker == [pc |-> "idle", given |-> <<>>, services |-> <<>>]

(***************************************************************************)
(* PostgreSQL.container (forklift/services/postgres.py): the database user *)
(* derived from the application id                                         *)
(***************************************************************************)
\* longest application id looked at
MaxIdLen == 3

\* the characters application ids are made of
IdChars == {"a", "Z", "-", "1", "0"}

\* re.sub('[^a-z0-9]', '_', s)
re_sub(s) ==
    [i \in 1..Len(s) |->
        IF \/ \E j \in 1..26 : ascii_lowercase[j] = s[i]
           \/ \E j \in 1..10 : digits[j] = s[i]
        THEN s[i] ELSE "_"]

\* PostgreSQL.container up to the call of ensure_container, u being the
\* application id after re.sub: user is a str, which has no item assignment,
\* and user[0] of an empty str is out of range
container_user(u) ==
    IF u = <<>> THEN [exc |-> "IndexError", user |-> u]
    ELSE IF isdigit(<<u[1]>>) THEN [exc |-> "TypeError", user |-> u]
    ELSE [exc |-> None, user |-> u]

\* no PostgreSQL.container call is being looked at
IdlePostgres == [pc |-> "idle", application_id |-> <<>>, user |-> <<>>, exc |-> None]

(***************************************************************************)
(* Container names (forklift/services/base.py container_name_for and       *)
(* cache_directory) for images and application ids of any form             *)
(***************************************************************************)
\* images and application ids that Docker and the configuration accept
NameImages == {<<"a", "/", "b">>, <<"a", "_", "b">>, <<"a", "_", "_", "b">>, <<"a">>, RedisImage}

NameAppIds == {<<"t", "e", "s", "t">>, <<"t">>, <<"b", "_", "_", "t">>}

\* no pair of names is being looked at
IdleNames == [pc |-> "idle", pairs |-> <<>>, container_names |-> <<>>,
              cache_dirs |-> <<>>]

(***************************************************************************)
(* Redis.check_available (forklift/services/redis.py)                      *)
(***************************************************************************)
\* the hosts a Redis service is checked at
RedisHosts == {<<"l", "o", "c", "a", "l", "h", "o", "s", "t", ":", "6", "3", "7", "9">>, <<"l", "o", "c", "a", "l", "h", "o", "s", "t">>, <<"r", ":", "6", "3", "8", "0">>, <<"h">>}

\* the bytes read_until waits for
PONG == <<"P", "O", "N", "G", "\n">>

\* what the server sends within the timeout of read_until: nothing, the
\* expected bytes, the reply of a Redis server, an error, a partial answer
Replies == {<<>>, PONG, <<"+", "P", "O", "N", "G", "\r", "\n">>, <<"-", "E", "R", "R", "\n">>,
            <<"P", "O", "N">>, <<"P", "O", "N", "G">>, <<"+", "P", "O", "N", "G", "\n">>,
            <<"\n">>}

RECURSIVE find_bytes(_, _, _)
\* bytes.find: the least index from i at which s has sub, or 0
find_bytes(s, sub, i) ==
    IF i + Len(sub) - 1 > Len(s) THEN 0
    ELSE IF SubSeq(s, i, i + Len(sub) - 1) = sub THEN i
    ELSE find_bytes(s, sub, i + 1)

\* Telnet.read_until(expected, timeout): the data up to and including
\* expected when it arrived in time; otherwise whatever arrived, EOFError when
\* the connection was closed and nothing arrived
read_until(reply, expected, eof) ==
    IF find_bytes(reply, expected, 1) > 0
    THEN Returned(SubSeq(reply, 1, find_bytes(reply, expected, 1) + Len(expected) - 1))
    ELSE IF eof /\ reply = <<>> THEN Raised("EOFError")
    ELSE Returned(reply)

\* Redis.check_available: Telnet(host, port) connects (socket.error when the
\* connection is refused), write(b'PING'), read_until(b'PONG\n', timeout=1),
\* whose result is dropped, close in the finally clause, return True
Redis_check_available(accepts, reply, eof) ==
    IF ~accepts THEN Raised("SocketError")
    ELSE IF read_until(reply, PONG, eof).exc # None
    THEN Raised(read_until(reply, PONG, eof).exc)
    ELSE Returned("True")

\* no check is being looked at
IdleRedis == [pc |-> "idle", host |-> <<>>, address |-> <<>>, accepts |-> FALSE,
              reply |-> <<>>, eof |-> FALSE, result |-> Returned(None)]

(***************************************************************************)
(* Two invocations that ensure and clean up the container of the same      *)
(* image and application id against one Docker daemon                      *)
(***************************************************************************)
Invocations == {"first", "second"}

\* an invocation that has not started.  created: get_or_create_container
\* created the container; new: container_info.new of the service it holds;
\* pending: the exception the handler of the port wait re-raises; lost: the
\* container was removed by the other invocation while this one held its
\* service
IdleInvocation ==
    [pc |-> "get", created |-> FALSE, new |-> FALSE, pending |-> NoException,
     outcome |-> None, exc |-> NoException, lost |-> FALSE]

\* no pair of invocations is being looked at
IdleConcurrent == [cls |-> None, container_name |-> <<>>,
                   inv |-> [p \in Invocations |-> IdleInvocation]]

(***************************************************************************)
(* ContainerRecycler.recycle_containers (forklift/drivers.py).  The        *)
(* containers of the Docker daemon are those of the variable containers.   *)
(***************************************************************************)
\* "docker ps -aq": every container there is
ps_aq(d) == {n \in DOMAIN d.containers : d.containers[n] # "absent"}

\* "docker ps -q": the containers that are running
ps_q(d) == {n \in DOMAIN d.containers : d.containers[n] = "running"}

\* the containers recycle_containers goes on to remove
recycled(include_running, all_containers, running_containers) ==
    IF include_running THEN all_containers
    ELSE all_containers \ running_containers

\* "docker rm -f" of the containers cs: a running container is killed and
\* removed like a stopped one
rm_f(d, cs) ==
    Docker([n \in DOMAIN d.containers |->
               IF n \in cs THEN "absent" ELSE d.containers[n]], d.cache)

\* no recycle_containers call is being looked at; removed_running are the
\* containers that were running when the removal command removed them
IdleRecycler ==
    [pc |-> "idle", include_running |-> FALSE, all_containers |-> {},
     running_containers |-> {}, removed |-> {}, removed_running |-> {}]

\* the variables of the specifications that follow the URL services
Later == <<rec, dk, pg, nm, rd, cc>>

\* the specifications after those of the drivers are idle
IdleLast ==
    /\ nm = IdleNames
    /\ rd = IdleRedis
    /\ cc = IdleConcurrent

IdleLater ==
    /\ rec = IdleRecycler
    /\ dk = IdleDocker
    /\ pg = IdlePostgres
    /\ IdleLast

\* the variables of the specifications below the driver
Others == <<fk, sat, url, Later>>

IdleOthers ==
    /\ fk = IdleMain
    /\ sat = IdleSat
    /\ url = IdleURL
    /\ IdleLater

\* a caller calls cls.provide(application_id, overrides, transient)
StartProvide ==
    /\ call.pc = "idle"
    /\ Len(services) < MaxServices
    /\ \E cls \in ServiceClasses, app \in AppIds, tr \in BOOLEAN,
          ov \in [Keys -> OverrideValues] :
          call' = [IdleCall EXCEPT !.pc = "trying", !.cls = cls,
                                   !.application_id = app, !.transient = tr,
                                   !.overrides = ov]
    /\ lastCleanup' = NoCleanup
    /\ UNCHANGED <<containers, cache, services, cleaned, ens, wt, drv, Others>>

\* one iteration of "for provider in cls.providers"; created records the
\* containers that are there after an iteration and were not before it
TryProvider ==
    /\ call.pc = "trying"
    /\ call.idx <= Len(providers(call.cls))
    /\ \E env \in Envs(call.cls, current_provider(call), call.transient, call.overrides) :
          LET r == provide_iteration(call, Docker(containers, cache), env) IN
          /\ call' = [r.call EXCEPT !.created =
                          @ \cup {n \in Names : /\ containers[n] = "absent"
                                                /\ r.docker.containers[n] # "absent"}]
          /\ containers' = r.docker.containers
          /\ cache' = r.docker.cache
    /\ UNCHANGED <<services, cleaned, lastCleanup, ens, wt, drv, Others>>

\* the loop ended without a return: raise ImproperlyConfigured
NoProviders ==
    /\ call.pc = "trying"
    /\ call.idx > Len(providers(call.cls))
    /\ call' = no_providers(call)
    /\ UNCHANGED <<containers, cache, services, cleaned, lastCleanup, ens, wt, drv, Others>>

\* what the caller's list keeps of a service: the fields cleanup reads
Held(service) ==
    [provided_by |-> service.provided_by, container_info |-> service.container_info]

\* provide is over: the caller keeps the service it was given, if any
FinishProvide ==
    /\ call.pc = "done"
    /\ services' = IF call.outcome = "returned" THEN Append(services, Held(call.inst))
                   ELSE services
    /\ call' = IdleCall
    /\ UNCHANGED <<containers, cache, cleaned, lastCleanup, ens, wt, drv, Others>>

\* the caller cleans up one of its services (once per service)
Cleanup ==
    /\ call.pc = "idle"
    /\ \E i \in 1..Len(services), rm_ok \in BOOLEAN :
          /\ i \notin cleaned
          /\ LET r == cleanup(services[i], Docker(containers, cache), rm_ok) IN
             /\ containers' = r.docker.containers
             /\ cache' = r.docker.cache
             /\ lastCleanup' = [idx |-> i, ret |-> r.ret, exc |-> r.exc,
                                destroyed |-> r.destroyed, rm_ok |-> rm_ok]
          /\ cleaned' = cleaned \cup {i}
    /\ UNCHANGED <<call, services, ens, wt, drv, Others>>

\* the run ends: the process exits and drops its services; what it left in
\* Docker stays for the next run
Exit ==
    /\ call.pc = "idle"
    /\ services # <<>>
    /\ services' = <<>>
    /\ cleaned' = {}
    /\ lastCleanup' = NoCleanup
    /\ UNCHANGED <<containers, cache, call, ens, wt, drv, Others>>

\* Containers and cache directories may be left over from earlier runs.
Init ==
    /\ containers \in [Names -> {"absent", "stopped", "running"}]
    /\ cache \in SUBSET {cache_directory(container_name_for(PostgreSQLImage, a)) : a \in AppIds}
    /\ call = IdleCall
    /\ services = <<>>
    /\ cleaned = {}
    /\ lastCleanup = NoCleanup
    /\ ens = IdleEnsure
    /\ wt = IdleWait
    /\ drv = IdleDriver
    /\ IdleOthers

Next ==
    \/ StartProvide
    \/ TryProvider
    \/ NoProviders
    \/ FinishProvide
    \/ Cleanup
    \/ Exit

Spec == Init /\ [][Next]_vars

(***************************************************************************)
(* Calls of _ensure_container, one Docker call per step; the process may   *)
(* be killed between any two steps                                         *)
(***************************************************************************)
ProvideVars == <<call, services, cleaned, lastCleanup>>

\* _ensure_container(image, port, application_id, data_dir) is called with
\* the arguments of the container provider of a class
EnsureCall ==
    /\ ens.pc = "idle"
    /\ \E cls \in ContainerClasses, app \in AppIds,
          env \in {<<TRUE, TRUE>>, <<TRUE, FALSE>>, <<FALSE, TRUE>>} :
          LET image == CONTAINER_IMAGE(cls)
              container_name == container_name_for(image, app)
          IN  ens' = [IdleEnsure EXCEPT
                        !.pc = "get", !.cls = cls, !.image = image,
                        !.port = DEFAULT_PORT(cls), !.application_id = app,
                        !.data_dir = DataDir(cls), !.container_name = container_name,
                        !.cached_dir = IF DataDir(cls) # NoDir
                                       THEN cache_directory(container_name) ELSE NoDir,
                        !.daemon = env[1], !.image_present = env[2],
                        !.existed = containers[container_name] # "absent",
                        !.prev = ens.prev]
    /\ UNCHANGED <<containers, cache, ProvideVars, wt, drv, Others>>

\* get_or_create_container up to create_container: inspect_container, and
\* inspect_image when the name is unknown
GetContainer ==
    /\ ens.pc = "get"
    /\ LET status == inspect_container(Docker(containers, cache), ens.container_name) IN
       ens' = IF ~ens.daemon THEN Raise(ens, CannotConnect)
              ELSE IF status # "absent"
              THEN [ens EXCEPT !.created = FALSE,
                               !.pc = IF status = "running" THEN "wait" ELSE "start"]
              ELSE IF ~ens.image_present THEN Raise(ens, DockerImageRequired(ens.image))
              ELSE [ens EXCEPT !.pc = "create"]
    /\ UNCHANGED <<containers, cache, ProvideVars, wt, drv, Others>>

\* create_container and the inspect_container after it
CreateContainer ==
    /\ ens.pc = "create"
    /\ LET r == create_container(Docker(containers, cache), ens.container_name) IN
       /\ containers' = r.docker.containers
       /\ ens' = IF r.exc # None
                 THEN [Raise(ens, Exc(r.exc, <<>>, <<>>)) EXCEPT
                          !.conflict = TRUE, !.creates = @ + 1]
                 ELSE [ens EXCEPT !.created = TRUE, !.creates = @ + 1, !.pc = "start"]
    /\ UNCHANGED <<cache, ProvideVars, wt, drv, Others>>

\* _start_container
StartContainer ==
    /\ ens.pc = "start"
    /\ LET d == start_container(Docker(containers, cache), ens.container_name,
                                ens.data_dir, ens.cached_dir) IN
       /\ containers' = d.containers
       /\ cache' = d.cache
    /\ ens' = [ens EXCEPT !.starts = @ + 1, !.pc = "wait"]
    /\ UNCHANGED <<ProvideVars, wt, drv, Others>>

\* the lookups of the address and of the host port Docker forwards to the
\* container's port, then _wait_for_port(image, host_port): wait_for(port_open,
\* retries), outs[k] being whether the host port accepts the connection of
\* attempt k
WaitForPort ==
    /\ ens.pc = "wait"
    /\ \E host_port \in HostPorts, outs \in [1..PortRetries -> {"True", "False"}] :
          ens' = IF wait_for(outs, {}, PortRetries).ret = "True"
                 THEN [ens EXCEPT
                         !.pc = "done", !.outcome = "returned", !.host_port = host_port,
                         !.info = ContainerInfo("172.17.0.2", ens.port, ens.cached_dir,
                                                ens.container_name, ens.created)]
                 ELSE port_wait_failed([ens EXCEPT !.port_never_open = TRUE,
                                                   !.host_port = host_port],
                                       ContainerRefusingConnection(ens.image, host_port))
    /\ UNCHANGED <<containers, cache, ProvideVars, wt, drv, Others>>

\* Ctrl-C during the wait: KeyboardInterrupt reaches the bare except
InterruptWait ==
    /\ ens.pc = "wait"
    /\ ens' = port_wait_failed(ens, Exc("KeyboardInterrupt", <<>>, <<>>))
    /\ UNCHANGED <<containers, cache, ProvideVars, wt, drv, Others>>

\* destroy_container: docker_client.stop
DestroyStop ==
    /\ ens.pc = "stop"
    /\ containers' = stop(Docker(containers, cache), ens.container_name).containers
    /\ ens' = [ens EXCEPT !.pc = "remove"]
    /\ UNCHANGED <<cache, ProvideVars, wt, drv, Others>>

\* destroy_container: docker_client.remove_container
DestroyRemove ==
    /\ ens.pc = "remove"
    /\ containers' = remove_container(Docker(containers, cache), ens.container_name).containers
    /\ ens' = [ens EXCEPT !.destroys = @ + 1, !.pc = "rm"]
    /\ UNCHANGED <<cache, ProvideVars, wt, drv, Others>>

\* destroy_container: rm_tree_root_owned(cache_dir), then the "raise" of
\* the handler
DestroyCache ==
    /\ ens.pc = "rm"
    /\ \E rm_ok \in BOOLEAN :
          cache' = rm_tree_root_owned(Docker(containers, cache),
                                      cache_directory(ens.container_name), rm_ok).cache
    /\ ens' = Raise(ens, ens.pending)
    /\ UNCHANGED <<containers, ProvideVars, wt, drv, Others>>

\* the call is over; its outcome is remembered for the next call
EnsureEnd ==
    /\ ens.pc = "done"
    /\ ens' = [IdleEnsure EXCEPT
                 !.prev = [image |-> ens.image, application_id |-> ens.application_id,
                           outcome |-> ens.outcome, created |-> ens.creates > 0,
                           info |-> ens.info]]
    /\ UNCHANGED <<containers, cache, ProvideVars, wt, drv, Others>>

\* the process is killed in the middle of the call
Kill ==
    /\ ens.pc \notin {"idle", "done"}
    /\ ens' = [IdleEnsure EXCEPT
                 !.prev = [image |-> ens.image, application_id |-> ens.application_id,
                           outcome |-> "interrupted", created |-> ens.creates > 0,
                           info |-> NoContainer]]
    /\ UNCHANGED <<containers, cache, ProvideVars, wt, drv, Others>>

NextEnsure ==
    \/ EnsureCall
    \/ GetContainer
    \/ CreateContainer
    \/ StartContainer
    \/ WaitForPort
    \/ InterruptWait
    \/ DestroyStop
    \/ DestroyRemove
    \/ DestroyCache
    \/ EnsureEnd
    \/ Kill

SpecEnsure == Init /\ [][NextEnsure]_vars

(***************************************************************************)
(* wait_until_available and available on an instance whose check_available *)
(* follows a script: outs[k] is what its k-th call does                    *)
(***************************************************************************)
\* longest script of arbitrary outcomes, and its retries
MaxRetries == 3
\* largest retries given with a script of failures followed by True
LongRetries == 10

\* the registered classes the classifier is looked at for
WaitClasses == ServiceClasses \cup {"Elasticsearch"}

\* the errors a scripted check_available raises
RaisedErrors == {"ProviderNotAvailable", "SocketError", "OSError",
                 "CalledProcessError", "URLError", "EOFError"}

Outcomes == {"True", "False"} \cup RaisedErrors

\* check_available raising e on its first k calls and returning True then
FailThenTrue(e, k) == [i \in 1..(k + 1) |-> IF i <= k THEN e ELSE "True"]

\* the calls looked at: <<retries, outs>>, a script always being long enough
\* for the attempts that can be made
WaitInputs ==
    {<<n, outs>> : n \in 0..MaxRetries, outs \in UNION {[1..m -> Outcomes] : m \in 0..MaxRetries}}
    \cup {<<n, FailThenTrue(e, k)>> : n \in 1..LongRetries, e \in RaisedErrors,
                                      k \in 0..LongRetries}

InitWait ==
    /\ containers = [n \in Names |-> "absent"]
    /\ cache = {}
    /\ call = IdleCall
    /\ services = <<>>
    /\ cleaned = {}
    /\ lastCleanup = NoCleanup
    /\ ens = IdleEnsure
    /\ drv = IdleDriver
    /\ IdleOthers
    /\ \E cls \in WaitClasses, in \in WaitInputs :
          /\ \/ in[1] <= Len(in[2])
             \/ (in[2] # <<>> /\ in[2][Len(in[2])] = "True")
          /\ wt = [IdleWait EXCEPT !.pc = "ready", !.cls = cls,
                                   !.retries = in[1], !.outs = in[2]]

\* service.wait_until_available(retries)
WaitUntilAvailable ==
    /\ wt.pc = "ready"
    /\ wt' = [wt EXCEPT !.pc = "waited",
                        !.waited = wait_until_available(wt.cls, wt.outs, wt.retries)]
    /\ UNCHANGED <<containers, cache, ProvideVars, ens, drv, Others>>

\* service.available()
Available ==
    /\ wt.pc = "ready"
    /\ wt.outs # <<>>
    /\ wt' = [wt EXCEPT !.pc = "checked", !.checked = available(wt.cls, wt.outs[1])]
    /\ UNCHANGED <<containers, cache, ProvideVars, ens, drv, Others>>

\* wait_for(func, expected_exceptions, retries) as its callers use it: with
\* the temporary errors of a service, or with no expected exceptions
WaitFor ==
    /\ wt.pc = "ready"
    /\ \E expected_exceptions \in {{}, TEMPORARY_AVAILABILITY_ERRORS(wt.cls)} :
          wt' = [wt EXCEPT !.pc = "polled",
                           !.expected = expected_exceptions,
                           !.polled = wait_for(wt.outs, expected_exceptions, wt.retries)]
    /\ UNCHANGED <<containers, cache, ProvideVars, ens, drv, Others>>

NextWait ==
    \/ WaitUntilAvailable
    \/ Available
    \/ WaitFor

SpecWait == InitWait /\ [][NextWait]_vars

(***************************************************************************)
(* Calls of Driver.environment                                             *)
(***************************************************************************)
InitDriver ==
    /\ containers = [n \in Names |-> "absent"]
    /\ cache = {}
    /\ call = IdleCall
    /\ services = <<>>
    /\ cleaned = {}
    /\ lastCleanup = NoCleanup
    /\ ens = IdleEnsure
    /\ wt = IdleWait
    /\ IdleOthers
    /\ \E n \in 0..MaxEnvServices :
          \E service_envs \in [1..n -> SuppliedEnvs], added \in SuppliedEnvs :
              drv = [IdleDriver EXCEPT !.pc = "ready", !.services = service_envs,
                                       !.added_environment = added]

\* driver.environment()
DriverEnvironment ==
    /\ drv.pc = "ready"
    /\ drv' = [drv EXCEPT !.pc = "done",
                          !.env = environment(drv.services, drv.added_environment)]
    /\ UNCHANGED <<containers, cache, ProvideVars, ens, wt, Others>>

NextDriver == DriverEnvironment

SpecDriver == InitDriver /\ [][NextDriver]_vars

(***************************************************************************)
(* Calls of Forklift.main                                                  *)
(***************************************************************************)
MainVars == <<containers, cache, ProvideVars, ens, wt, drv, Later>>

InitMain ==
    /\ containers = [n \in Names |-> "absent"]
    /\ cache = {}
    /\ call = IdleCall
    /\ services = <<>>
    /\ cleaned = {}
    /\ lastCleanup = NoCleanup
    /\ ens = IdleEnsure
    /\ wt = IdleWait
    /\ drv = IdleDriver
    /\ sat = IdleSat
    /\ url = IdleURL
    /\ IdleLater
    /\ \E help \in BOOLEAN, n \in 0..MaxRequired, result \in RunResults :
          \E required \in [1..n -> ProvideOutcomes] :
              fk = [IdleMain EXCEPT !.pc = "start", !.help = help,
                                    !.required = required, !.run_result = result]

\* if 'help' in self.conf or len(self.args) == 0: self.help(); return 0
MainHelp ==
    /\ fk.pc = "start"
    /\ fk.help
    /\ fk' = [fk EXCEPT !.pc = "returned", !.status = 0]
    /\ UNCHANGED <<MainVars, sat, url>>

\* the driver class is chosen and the try block is entered
MainSelectDriver ==
    /\ fk.pc = "start"
    /\ ~fk.help
    /\ fk' = [fk EXCEPT !.pc = "providing"]
    /\ UNCHANGED <<MainVars, sat, url>>

\* the next requested service is provided
MainProvide ==
    /\ fk.pc = "providing"
    /\ Len(fk.services) < Len(fk.required)
    /\ fk' = main_provide(fk, Len(fk.services) + 1)
    /\ UNCHANGED <<MainVars, sat, url>>

\* driver = driver_class(target=..., services=services, ...)
MainDriver ==
    /\ fk.pc = "providing"
    /\ Len(fk.services) = Len(fk.required)
    /\ fk' = [fk EXCEPT !.pc = "driver", !.driver = TRUE]
    /\ UNCHANGED <<MainVars, sat, url>>

\* return driver.run(*command)
MainRun ==
    /\ fk.pc = "driver"
    /\ fk' = main_run(fk)
    /\ UNCHANGED <<MainVars, sat, url>>

NextMain ==
    \/ MainHelp
    \/ MainSelectDriver
    \/ MainProvide
    \/ MainDriver
    \/ MainRun

SpecMain == InitMain /\ [][NextMain]_vars

(***************************************************************************)
(* start_satellite and calls of wait_for_pid                               *)
(***************************************************************************)
SatVars == <<containers, cache, ProvideVars, ens, wt, drv, fk, url, Later>>

InitSatellite ==
    /\ containers = [n \in Names |-> "absent"]
    /\ cache = {}
    /\ call = IdleCall
    /\ services = <<>>
    /\ cleaned = {}
    /\ lastCleanup = NoCleanup
    /\ ens = IdleEnsure
    /\ wt = IdleWait
    /\ drv = IdleDriver
    /\ fk = IdleMain
    /\ url = IdleURL
    /\ IdleLater
    /\ \/ \E stop_callback \in StopCallbacks :
             sat = [IdleSat EXCEPT !.pc = "start", !.stop = stop_callback,
                                   !.caller = "calling"]
       \/ \E scenario \in Scenarios \ {"start_satellite"}, target \in TargetStates :
             sat = [IdleSat EXCEPT !.pc = "waitpid", !.scenario = scenario,
                                   !.target = target, !.pid = "target",
                                   !.is_child = (scenario = "wait_for_child")]

\* child_pid = os.fork(): the Forklift process returns from start_satellite,
\* the child goes on to _satellite
StartSatellite ==
    /\ sat.pc = "start"
    /\ sat.target = "running"
    /\ sat' = [sat EXCEPT !.pc = "forked", !.caller = "returned"]
    /\ UNCHANGED SatVars

\* wait_for_parent: wait_for_pid(os.getppid())
WaitForParent ==
    /\ sat.pc = "forked"
    /\ sat' = [sat EXCEPT !.pc = "waitpid", !.pid = getppid(sat)]
    /\ UNCHANGED SatVars

\* os.waitpid(pid, 0) returns or raises
WaitPid ==
    /\ sat.pc = "waitpid"
    /\ ~waitpid_blocks(sat)
    /\ sat' = waitpid(sat)
    /\ UNCHANGED SatVars

\* os.waitpid(pid, 0) is found waiting for the running child
WaitPidBlocks ==
    /\ sat.pc = "waitpid"
    /\ waitpid_blocks(sat)
    /\ ~sat.blocked
    /\ sat' = [sat EXCEPT !.blocked = TRUE]
    /\ UNCHANGED SatVars

\* proc = psutil.Process(pid)
PsutilProcess ==
    /\ sat.pc = "Process"
    /\ sat' = IF proc_status(sat) = "NoSuchProcess"
              THEN [sat EXCEPT !.pc = "returned"]
              ELSE [sat EXCEPT !.pc = "poll"]
    /\ UNCHANGED SatVars

\* proc.status() not in ('zombie', 'dead')
Poll ==
    /\ sat.pc = "poll"
    /\ sat' = poll(sat)
    /\ UNCHANGED SatVars

\* time.sleep(1)
Sleep ==
    /\ sat.pc = "sleep"
    /\ sat' = [sat EXCEPT !.pc = "poll", !.slept = TRUE]
    /\ UNCHANGED SatVars

\* exit_status = stop() if stop is not None else None
SatelliteStop ==
    /\ sat.scenario = "start_satellite"
    /\ sat.pc = "returned"
    /\ sat' = [sat EXCEPT !.pc = "stopped",
                          !.stops = IF sat.stop = "None" THEN sat.stops ELSE sat.stops + 1,
                          !.exit = exit_status(sat.stop)]
    /\ UNCHANGED SatVars

\* os._exit(exit_status)
SatelliteExit ==
    /\ sat.pc = "stopped"
    /\ sat' = [sat EXCEPT !.pc = "exited"]
    /\ UNCHANGED SatVars

\* the watched process terminates (the Forklift process: after the fork)
TargetExit ==
    /\ sat.pc \notin {"idle", "start"}
    /\ sat.target = "running"
    /\ sat' = [sat EXCEPT !.target = "zombie"]
    /\ UNCHANGED SatVars

\* the parent of the watched process, another process than the caller of
\* wait_for_pid, collects it
TargetReaped ==
    /\ sat.pc \notin {"idle", "start"}
    /\ ~sat.is_child
    /\ sat.target = "zombie"
    /\ sat' = [sat EXCEPT !.target = "gone"]
    /\ UNCHANGED SatVars

\* the steps of the process that waits
Waiter ==
    \/ WaitForParent
    \/ WaitPid
    \/ WaitPidBlocks
    \/ PsutilProcess
    \/ Poll
    \/ Sleep
    \/ SatelliteStop
    \/ SatelliteExit

NextSatellite ==
    \/ StartSatellite
    \/ Waiter
    \/ TargetExit
    \/ TargetReaped

SpecSatellite == InitSatellite /\ [][NextSatellite]_vars

\* the waiting process is scheduled again and again
SpecSatelliteFair == SpecSatellite /\ WF_vars(Waiter)

(***************************************************************************)
(* URL services: construction and assignments to the parts                 *)
(***************************************************************************)
URLVars == <<containers, cache, ProvideVars, ens, wt, drv, fk, sat, Later>>

InitURL ==
    /\ containers = [n \in Names |-> "absent"]
    /\ cache = {}
    /\ call = IdleCall
    /\ services = <<>>
    /\ cleaned = {}
    /\ lastCleanup = NoCleanup
    /\ ens = IdleEnsure
    /\ wt = IdleWait
    /\ drv = IdleDriver
    /\ fk = IdleMain
    /\ sat = IdleSat
    /\ IdleLater
    /\ \E cls \in URLClasses, n \in 1..MaxURLs :
          \E input \in [1..n -> URLStrings] :
              url = [IdleURL EXCEPT !.pc = "new", !.cls = cls, !.input = input]

\* the result of an assignment: the URLs are replaced unless it raised
assigned(part, value, us) ==
    IF raised(us) # {}
    THEN [url EXCEPT !.pc = "raised", !.exc = CHOOSE e \in raised(us) : TRUE,
                     !.prev = url.urls, !.before = url.last,
                     !.last = [part |-> part, value |-> value],
                     !.sets = url.sets + 1]
    ELSE [url EXCEPT !.urls = us, !.string = url_string(us),
                     !.prev = url.urls, !.before = url.last,
                     !.last = [part |-> part, value |-> value],
                     !.sets = url.sets + 1]

\* cls(urls) with the pipe-joined string of the URLs
Construct ==
    /\ url.pc = "new"
    /\ LET us == urls_setter(<<join(url.input, <<"|">>)>>) IN
       url' = [url EXCEPT !.pc = "ready", !.urls = us, !.string = url_string(us)]
    /\ UNCHANGED URLVars

\* service.user = value, service.password = value
SetSingle ==
    /\ url.pc = "ready"
    /\ url.cls = "URLService"
    /\ url.sets < MaxSets
    /\ \E part \in single_parts :
          \E value \in PartValues(part) :
              url' = assigned(part, value, URLDescriptor_set(url.urls, part, value[1]))
    /\ UNCHANGED URLVars

\* service.host = value, service.port = value
SetMulti ==
    /\ url.pc = "ready"
    /\ url.cls = "URLService"
    /\ url.sets < MaxSets
    /\ \E part \in multi_parts :
          \E value \in PartValues(part) :
              url' = assigned(part, value,
                              URLMultiValueDescriptor_set(url.urls, part, value))
    /\ UNCHANGED URLVars

\* service.host = value for an Elasticsearch service
ElasticsearchSetHost ==
    /\ url.pc = "ready"
    /\ url.cls = "Elasticsearch"
    /\ url.sets < MaxSets
    /\ \E value \in PartValues("host") :
          /\ Len(value) = 1
          /\ url' = assigned("host", value, Elasticsearch_host_set(url.urls, value[1]))
    /\ UNCHANGED URLVars

NextURL ==
    \/ Construct
    \/ SetSingle
    \/ SetMulti
    \/ ElasticsearchSetHost

SpecURL == InitURL /\ [][NextURL]_vars

(***************************************************************************)
(* A call of ContainerRecycler.recycle_containers, with other users of the *)
(* Docker daemon starting and stopping containers meanwhile                *)
(***************************************************************************)
RecyclerVars == <<cache, ProvideVars, ens, wt, drv, fk, sat, url, dk, pg, nm, rd, cc>>

InitRecycler ==
    /\ containers \in [Names -> {"absent", "stopped", "running"}]
    /\ cache = {}
    /\ call = IdleCall
    /\ services = <<>>
    /\ cleaned = {}
    /\ lastCleanup = NoCleanup
    /\ ens = IdleEnsure
    /\ wt = IdleWait
    /\ drv = IdleDriver
    /\ fk = IdleMain
    /\ sat = IdleSat
    /\ url = IdleURL
    /\ rec = IdleRecycler
    /\ dk = IdleDocker
    /\ pg = IdlePostgres
    /\ IdleLast

\* recycle_containers(include_running): all_containers = "docker ps -aq"
ListAll ==
    /\ rec.pc = "idle"
    /\ \E include_running \in BOOLEAN :
          rec' = [IdleRecycler EXCEPT
                    !.pc = "listed_all", !.include_running = include_running,
                    !.all_containers = ps_aq(Docker(containers, cache))]
    /\ UNCHANGED <<containers, RecyclerVars>>

\* running_containers = "docker ps -q"
ListRunning ==
    /\ rec.pc = "listed_all"
    /\ rec' = [rec EXCEPT !.pc = "listed_running",
                          !.running_containers = ps_q(Docker(containers, cache))]
    /\ UNCHANGED <<containers, RecyclerVars>>

\* if containers: "docker rm -f" + tuple(containers)
Remove ==
    /\ rec.pc = "listed_running"
    /\ LET cs == recycled(rec.include_running, rec.all_containers,
                          rec.running_containers) IN
       /\ containers' = rm_f(Docker(containers, cache), cs).containers
       /\ rec' = [rec EXCEPT !.pc = "done", !.removed = cs,
                             !.removed_running = cs \cap ps_q(Docker(containers, cache))]
    /\ UNCHANGED RecyclerVars

\* another user of the daemon starts a stopped container
DockerStart ==
    /\ rec.pc # "done"
    /\ \E n \in Names :
          /\ containers[n] = "stopped"
          /\ containers' = [containers EXCEPT ![n] = "running"]
    /\ UNCHANGED <<rec, RecyclerVars>>

\* a running container stops
DockerStop ==
    /\ rec.pc # "done"
    /\ \E n \in Names :
          /\ containers[n] = "running"
          /\ containers' = [containers EXCEPT ![n] = "stopped"]
    /\ UNCHANGED <<rec, RecyclerVars>>

NextRecycler ==
    \/ ListAll
    \/ ListRunning
    \/ Remove
    \/ DockerStart
    \/ DockerStop

SpecRecycler == InitRecycler /\ [][NextRecycler]_vars

(***************************************************************************)
(* Calls of Docker.environment                                             *)
(***************************************************************************)
InitDocker ==
    /\ containers = [n \in Names |-> "absent"]
    /\ cache = {}
    /\ call = IdleCall
    /\ services = <<>>
    /\ cleaned = {}
    /\ lastCleanup = NoCleanup
    /\ ens = IdleEnsure
    /\ wt = IdleWait
    /\ drv = IdleDriver
    /\ fk = IdleMain
    /\ sat = IdleSat
    /\ url = IdleURL
    /\ rec = IdleRecycler
    /\ pg = IdlePostgres
    /\ IdleLast
    /\ \E n \in 1..MaxDockerServices :
          \E given \in [1..n -> DockerServices] :
              dk = [IdleDocker EXCEPT !.pc = "ready", !.given = given,
                                      !.services = given]

\* driver.environment() of the Docker driver
DockerEnvironment ==
    /\ dk.pc = "ready"
    /\ dk' = [dk EXCEPT !.pc = "done", !.services = Docker_environment(dk.services)]
    /\ UNCHANGED <<containers, cache, ProvideVars, ens, wt, drv, fk, sat, url, rec, pg, nm, rd, cc>>

NextDocker == DockerEnvironment

SpecDocker == InitDocker /\ [][NextDocker]_vars

(***************************************************************************)
(* Calls of PostgreSQL.container                                           *)
(***************************************************************************)
InitPostgres ==
    /\ containers = [n \in Names |-> "absent"]
    /\ cache = {}
    /\ call = IdleCall
    /\ services = <<>>
    /\ cleaned = {}
    /\ lastCleanup = NoCleanup
    /\ ens = IdleEnsure
    /\ wt = IdleWait
    /\ drv = IdleDriver
    /\ fk = IdleMain
    /\ sat = IdleSat
    /\ url = IdleURL
    /\ rec = IdleRecycler
    /\ dk = IdleDocker
    /\ IdleLast
    /\ \E n \in 1..MaxIdLen :
          \E application_id \in [1..n -> IdChars] :
              pg = [IdlePostgres EXCEPT !.pc = "called",
                                        !.application_id = application_id]

\* PostgreSQL.container(application_id) up to the call of ensure_container,
\* which it reaches (pc = "ensure") unless the derivation of user raised
ContainerUser ==
    /\ pg.pc = "called"
    /\ LET r == container_user(re_sub(pg.application_id)) IN
       pg' = [pg EXCEPT !.pc = IF r.exc = None THEN "ensure" ELSE "raised",
                        !.user = r.user, !.exc = r.exc]
    /\ UNCHANGED <<containers, cache, ProvideVars, ens, wt, drv, fk, sat, url, rec, dk, nm, rd, cc>>

NextPostgres == ContainerUser

SpecPostgres == InitPostgres /\ [][NextPostgres]_vars

(***************************************************************************)
(* Names and cache directories of two (image, application id) pairs        *)
(***************************************************************************)
InitNames ==
    /\ containers = [n \in Names |-> "absent"]
    /\ cache = {}
    /\ call = IdleCall
    /\ services = <<>>
    /\ cleaned = {}
    /\ lastCleanup = NoCleanup
    /\ ens = IdleEnsure
    /\ wt = IdleWait
    /\ drv = IdleDriver
    /\ fk = IdleMain
    /\ sat = IdleSat
    /\ url = IdleURL
    /\ rec = IdleRecycler
    /\ dk = IdleDocker
    /\ pg = IdlePostgres
    /\ rd = IdleRedis
    /\ cc = IdleConcurrent
    /\ \E i1 \in NameImages, a1 \in NameAppIds, i2 \in NameImages, a2 \in NameAppIds :
          nm = [IdleNames EXCEPT
                  !.pc = "called",
                  !.pairs = <<[image |-> i1, application_id |-> a1],
                              [image |-> i2, application_id |-> a2]>>]

\* _ensure_container names the container and its cache directory for each
\* of the two pairs
ContainerNames ==
    /\ nm.pc = "called"
    /\ LET ns == [k \in 1..2 |-> container_name_for(nm.pairs[k].image,
                                                    nm.pairs[k].application_id)]
       IN  nm' = [nm EXCEPT !.pc = "named", !.container_names = ns,
                            !.cache_dirs = [k \in 1..2 |-> cache_directory(ns[k])]]
    /\ UNCHANGED <<containers, cache, ProvideVars, ens, wt, drv, fk, sat, url,
                   rec, dk, pg, rd, cc>>

NextNames == ContainerNames

SpecNames == InitNames /\ [][NextNames]_vars

(***************************************************************************)
(* Calls of Redis.check_available                                          *)
(***************************************************************************)
InitRedis ==
    /\ containers = [n \in Names |-> "absent"]
    /\ cache = {}
    /\ call = IdleCall
    /\ services = <<>>
    /\ cleaned = {}
    /\ lastCleanup = NoCleanup
    /\ ens = IdleEnsure
    /\ wt = IdleWait
    /\ drv = IdleDriver
    /\ fk = IdleMain
    /\ sat = IdleSat
    /\ url = IdleURL
    /\ rec = IdleRecycler
    /\ dk = IdleDocker
    /\ pg = IdlePostgres
    /\ nm = IdleNames
    /\ cc = IdleConcurrent
    /\ \E h \in RedisHosts, accepts \in BOOLEAN, reply \in Replies, eof \in BOOLEAN :
          rd = [IdleRedis EXCEPT !.pc = "called", !.host = h, !.accepts = accepts,
                                 !.reply = IF accepts THEN reply ELSE <<>>,
                                 !.eof = eof]

\* service.check_available() of a Redis service at rd.host
RedisCheckAvailable ==
    /\ rd.pc = "called"
    /\ rd' = [rd EXCEPT !.pc = "done",
                        !.address = split_host_port(rd.host, DEFAULT_PORT("Redis")),
                        !.result = Redis_check_available(rd.accepts, rd.reply, rd.eof)]
    /\ UNCHANGED <<containers, cache, ProvideVars, ens, wt, drv, fk, sat, url,
                   rec, dk, pg, nm, cc>>

NextRedis == RedisCheckAvailable

SpecRedis == InitRedis /\ [][NextRedis]_vars

(***************************************************************************)
(* Two concurrent invocations for the same image and application id, one   *)
(* Docker call per step                                                    *)
(***************************************************************************)
InitConcurrent ==
    /\ cache = {}
    /\ call = IdleCall
    /\ services = <<>>
    /\ cleaned = {}
    /\ lastCleanup = NoCleanup
    /\ ens = IdleEnsure
    /\ wt = IdleWait
    /\ drv = IdleDriver
    /\ fk = IdleMain
    /\ sat = IdleSat
    /\ url = IdleURL
    /\ rec = IdleRecycler
    /\ dk = IdleDocker
    /\ pg = IdlePostgres
    /\ nm = IdleNames
    /\ rd = IdleRedis
    /\ \E cls \in ContainerClasses, app \in AppIds,
          found \in {"absent", "stopped", "running"} :
          LET container_name == container_name_for(CONTAINER_IMAGE(cls), app) IN
          /\ cc = [IdleConcurrent EXCEPT !.cls = cls, !.container_name = container_name]
          /\ containers = [n \in Names |-> IF n = container_name THEN found ELSE "absent"]

\* the invocation that is not p
Other(p) == CHOOSE q \in Invocations : q # p

\* get_or_create_container up to create_container: inspect_container
ConcurrentGet(p) ==
    /\ cc.inv[p].pc = "get"
    /\ LET status == inspect_container(Docker(containers, cache), cc.container_name) IN
       cc' = [cc EXCEPT !.inv[p] =
                 IF status # "absent"
                 THEN [@ EXCEPT !.created = FALSE,
                                !.pc = IF status = "running" THEN "port" ELSE "start"]
                 ELSE [@ EXCEPT !.pc = "create"]]
    /\ UNCHANGED <<containers, cache, ProvideVars, ens, wt, drv, fk, sat, url,
                   rec, dk, pg, nm, rd>>

\* get_or_create_container: create_container, which Docker refuses
\* (APIError) when the other invocation took the name meanwhile
ConcurrentCreate(p) ==
    /\ cc.inv[p].pc = "create"
    /\ LET r == create_container(Docker(containers, cache), cc.container_name) IN
       /\ containers' = r.docker.containers
       /\ cc' = [cc EXCEPT !.inv[p] =
                    IF r.exc # None THEN Raise(@, Exc(r.exc, <<>>, <<>>))
                    ELSE [@ EXCEPT !.created = TRUE, !.pc = "start"]]
    /\ UNCHANGED <<cache, ProvideVars, ens, wt, drv, fk, sat, url,
                   rec, dk, pg, nm, rd>>

\* _start_container of a container that the inspection found not running;
\* Docker knows no such container (APIError) when it was removed meanwhile
ConcurrentStart(p) ==
    /\ cc.inv[p].pc = "start"
    /\ IF containers[cc.container_name] = "absent"
       THEN /\ cc' = [cc EXCEPT !.inv[p] = Raise(@, Exc("APIError", <<>>, <<>>))]
            /\ UNCHANGED <<containers, cache>>
       ELSE LET d == start_container(Docker(containers, cache), cc.container_name,
                                     DataDir(cc.cls),
                                     IF DataDir(cc.cls) # NoDir
                                     THEN cache_directory(cc.container_name) ELSE NoDir)
            IN  /\ containers' = d.containers
                /\ cache' = d.cache
                /\ cc' = [cc EXCEPT !.inv[p].pc = "port"]
    /\ UNCHANGED <<ProvideVars, ens, wt, drv, fk, sat, url, rec, dk, pg, nm, rd>>

\* inspect_container(...)['NetworkSettings'] and port(...)[0]['HostPort']:
\* APIError for a container that is gone, and no binding to index
\* (TypeError) for one that the other invocation stopped
ConcurrentPort(p) ==
    /\ cc.inv[p].pc = "port"
    /\ cc' = [cc EXCEPT !.inv[p] =
                 IF containers[cc.container_name] = "absent"
                 THEN Raise(@, Exc("APIError", <<>>, <<>>))
                 ELSE IF containers[cc.container_name] = "stopped"
                 THEN Raise(@, Exc("TypeError", <<>>, <<>>))
                 ELSE [@ EXCEPT !.pc = "wait"]]
    /\ UNCHANGED <<containers, cache, ProvideVars, ens, wt, drv, fk, sat, url,
                   rec, dk, pg, nm, rd>>

\* _wait_for_port and its handler; the port of a container that is not
\* running accepts no connection.  The invocation then holds the service of
\* the container (pc = "ready").
ConcurrentWaitForPort(p) ==
    /\ cc.inv[p].pc = "wait"
    /\ \E host_port \in HostPorts, outs \in [1..PortRetries -> {"True", "False"}] :
          /\ containers[cc.container_name] # "running" =>
                \A k \in 1..PortRetries : outs[k] = "False"
          /\ cc' = [cc EXCEPT !.inv[p] =
                       IF wait_for(outs, {}, PortRetries).ret = "True"
                       THEN [@ EXCEPT !.pc = "ready", !.outcome = "returned",
                                      !.new = cc.inv[p].created]
                       ELSE port_wait_failed(@, ContainerRefusingConnection(
                                                    CONTAINER_IMAGE(cc.cls), host_port))]
    /\ UNCHANGED <<containers, cache, ProvideVars, ens, wt, drv, fk, sat, url,
                   rec, dk, pg, nm, rd>>

\* Service.cleanup of the service the invocation holds
ConcurrentCleanup(p) ==
    /\ cc.inv[p].pc = "ready"
    /\ cc' = [cc EXCEPT !.inv[p] =
                 IF @.new THEN [@ EXCEPT !.pc = "stop"]
                 ELSE [@ EXCEPT !.pc = "done", !.outcome = "cleaned"]]
    /\ UNCHANGED <<containers, cache, ProvideVars, ens, wt, drv, fk, sat, url,
                   rec, dk, pg, nm, rd>>

\* destroy_container: docker_client.stop
ConcurrentStop(p) ==
    /\ cc.inv[p].pc = "stop"
    /\ IF containers[cc.container_name] = "absent"
       THEN /\ cc' = [cc EXCEPT !.inv[p] = Raise(@, Exc("APIError", <<>>, <<>>))]
            /\ UNCHANGED containers
       ELSE /\ containers' = stop(Docker(containers, cache), cc.container_name).containers
            /\ cc' = [cc EXCEPT !.inv[p].pc = "remove"]
    /\ UNCHANGED <<cache, ProvideVars, ens, wt, drv, fk, sat, url, rec, dk, pg, nm, rd>>

\* destroy_container: docker_client.remove_container, which Docker refuses
\* for a container that is gone or that was started again
ConcurrentRemove(p) ==
    /\ cc.inv[p].pc = "remove"
    /\ IF containers[cc.container_name] # "stopped"
       THEN /\ cc' = [cc EXCEPT !.inv[p] = Raise(@, Exc("APIError", <<>>, <<>>))]
            /\ UNCHANGED containers
       ELSE /\ containers' = remove_container(Docker(containers, cache),
                                              cc.container_name).containers
            /\ cc' = [cc EXCEPT !.inv = [@ EXCEPT
                         ![p] = [@ EXCEPT !.pc = "rm"],
                         ![Other(p)] = IF @.pc = "ready"
                                       THEN [@ EXCEPT !.lost = TRUE] ELSE @]]
    /\ UNCHANGED <<cache, ProvideVars, ens, wt, drv, fk, sat, url, rec, dk, pg, nm, rd>>

\* destroy_container: rm_tree_root_owned(cache_dir); then cleanup returns,
\* or the handler of the port wait re-raises
ConcurrentRemoveCache(p) ==
    /\ cc.inv[p].pc = "rm"
    /\ \E rm_ok \in BOOLEAN :
          cache' = rm_tree_root_owned(Docker(containers, cache),
                                      cache_directory(cc.container_name), rm_ok).cache
    /\ cc' = [cc EXCEPT !.inv[p] =
                 IF @.pending = NoException
                 THEN [@ EXCEPT !.pc = "done", !.outcome = "cleaned"]
                 ELSE Raise(@, cc.inv[p].pending)]
    /\ UNCHANGED <<containers, ProvideVars, ens, wt, drv, fk, sat, url,
                   rec, dk, pg, nm, rd>>

NextConcurrent ==
    \E p \in Invocations :
        \/ ConcurrentGet(p)
        \/ ConcurrentCreate(p)
        \/ ConcurrentStart(p)
        \/ ConcurrentPort(p)
        \/ ConcurrentWaitForPort(p)
        \/ ConcurrentCleanup(p)
        \/ ConcurrentStop(p)
        \/ ConcurrentRemove(p)
        \/ ConcurrentRemoveCache(p)

SpecConcurrent == InitConcurrent /\ [][NextConcurrent]_vars


(***************************************************************************)
(* Properties of Service.provide                                           *)
(***************************************************************************)
Done == call.pc = "done"
ReturnedService == Done /\ call.outcome = "returned"
LastTried == call.tried[Len(call.tried)]
\* results of an iteration after which the loop goes on to the next provider
Passed == {"skipped", "not available", "unavailable"}

\* C1: provide tries the providers in the order of cls.providers, and the
\* instance it returns comes from the first provider that was not skipped,
\* did not raise ProviderNotAvailable and was available: every provider
\* before it was skipped, not available or unavailable.
C1_ProvidersTriedInOrder ==
    /\ call.pc # "idle" =>
         /\ Len(call.tried) <= Len(providers(call.cls))
         /\ \A k \in 1..Len(call.tried) : call.tried[k].provider = providers(call.cls)[k]
    /\ ReturnedService =>
         /\ LastTried.result = "available"
         /\ call.inst.built_by = LastTried.provider
         /\ \A k \in 1..(Len(call.tried) - 1) : call.tried[k].result \in Passed

\* the second provider is returned after the first one was unavailable
C1_Witness ==
    /\ ReturnedService
    /\ Len(call.tried) = 2
    /\ call.tried[1].result = "unavailable"
    /\ call.inst.built_by = providers(call.cls)[2]

\* C2: when every provider was skipped, raised ProviderNotAvailable or gave
\* an instance that was not available, provide raises ImproperlyConfigured
\* with the message "No available providers for service <ClassName>."
C2_NoAvailableProviders ==
    (/\ Done
     /\ Len(call.tried) = Len(providers(call.cls))
     /\ \A k \in 1..Len(call.tried) : call.tried[k].result \in Passed)
    => /\ call.outcome = "raised"
       /\ call.exc = "ImproperlyConfigured"
       /\ call.msg = <<"No available providers for service {0}.", call.cls>>

\* a call that found one provider not available and the other unavailable
C2_Witness ==
    /\ Done
    /\ call.exc = "ImproperlyConfigured"
    /\ Len(call.tried) = 2
    /\ call.tried[1].result = "unavailable"
    /\ call.tried[2].result = "not available"

\* C3: with transient=True no provider that is not marked transient is
\* invoked or returned, even an earlier one that would be available; without
\* transient no provider is skipped and an available first provider is the
\* one selected.
C3_TransientOnly ==
    /\ call.pc # "idle" /\ call.transient =>
         /\ \A k \in 1..Len(call.tried) :
               call.tried[k].result # "skipped" =>
                   transient_provider(call.cls, call.tried[k].provider)
         /\ ReturnedService => transient_provider(call.cls, call.inst.built_by)
    /\ call.pc # "idle" /\ ~call.transient =>
         /\ \A k \in 1..Len(call.tried) : call.tried[k].result # "skipped"
         /\ (Len(call.tried) >= 1 /\ call.tried[1].result = "available")
               => ReturnedService /\ call.inst.built_by = providers(call.cls)[1]

\* TestService with --transient: "here" (always available) is passed over
\* and "here_occasionally" is returned
C3_Witness ==
    /\ ReturnedService
    /\ call.transient
    /\ call.cls = "TestService"
    /\ call.tried[1] = Tried("here", "skipped", None)
    /\ call.inst.provided_by = "here_occasionally"

\* C4: the instance provide returns has provided_by equal to the name of the
\* provider factory that built it, which is an element of cls.providers.
C4_ProvidedBy ==
    ReturnedService =>
        /\ call.inst.provided_by = call.inst.built_by
        /\ \E k \in 1..Len(providers(call.cls)) :
              providers(call.cls)[k] = call.inst.provided_by

\* an instance of the localhost provider of a class that also has a
\* container provider
C4_Witness ==
    /\ ReturnedService
    /\ call.inst.provided_by = "localhost"
    /\ call.inst.built_by = "localhost"
    /\ call.cls = "PostgreSQL"
\* the overrides of the call have a non-null key the class does not allow
DisallowedOverride ==
    \E key \in Keys :
        /\ call.overrides[key] # None
        /\ key \notin allow_override(call.cls) \cup allow_override_list(call.cls)

\* C5: with a non-null override key that is in neither allow_override nor
\* allow_override_list, provide does not return a service but fails with
\* ImproperlyConfigured; null override keys never cause an error.
C5_DisallowedOverrideRejected ==
    /\ (Done /\ DisallowedOverride) =>
           call.outcome = "raised" /\ call.exc = "ImproperlyConfigured"
    /\ (call.pc # "idle" /\ ~DisallowedOverride) =>
           \A k \in 1..Len(call.tried) : call.tried[k].result # "override rejected"

\* the providers whose iteration ended in ProviderNotAvailable, in order
RECURSIVE NotAvailableProviders(_)
NotAvailableProviders(tried) ==
    IF tried = <<>> THEN <<>>
    ELSE (IF Head(tried).result = "not available" THEN <<Head(tried).provider>> ELSE <<>>)
         \o NotAvailableProviders(Tail(tried))

C7_ServiceOrImproperlyConfigured ==
    Done =>
        \/ call.outcome = "returned"
        \/ call.exc = "ImproperlyConfigured"
        \/ ~Catches(TEMPORARY_AVAILABILITY_ERRORS(call.cls)
                      \cup PERMANENT_AVAILABILITY_ERRORS(call.cls)
                      \cup {"ProviderNotAvailable"}, call.exc)

(***************************************************************************)
(* Properties of Service.cleanup                                           *)
(***************************************************************************)
\* this step is the caller's cleanup() of services[i]
CleanupStep(i) == i \in 1..Len(services) /\ i \notin cleaned /\ cleaned' = cleaned \cup {i}
\* this step is an iteration of provide that calls cleanup() before re-raising
CleanupInProvide == call.pc = "trying" /\ call'.cleanups = call.cleanups + 1
DockerUnchanged == containers' = containers /\ cache' = cache

\* C8: cleanup never stops or removes a container, nor deletes its cache,
\* when the record of the instance has new = False.
C8_ReusedContainerKept ==
    /\ [][\A i \in 1..Len(services) :
            (CleanupStep(i) /\ ~services[i].container_info.new)
                => DockerUnchanged /\ lastCleanup'.destroyed = 0]_vars
    /\ [][(CleanupInProvide /\ ~call'.inst.container_info.new)
                => /\ call'.destroyed = 0
                   /\ call'.inst.provided_by = "container" =>
                         containers'[call'.inst.container_info.name] = "running"]_vars

\* a reused container is still running after the cleanup of its service
C8_Witness ==
    /\ lastCleanup.idx # 0
    /\ services[lastCleanup.idx].provided_by = "container"
    /\ ~services[lastCleanup.idx].container_info.new
    /\ lastCleanup.ret = "True"
    /\ lastCleanup.destroyed = 0
    /\ containers[services[lastCleanup.idx].container_info.name] = "running"

\* C9: cleanup of an instance whose provided_by is not "container" returns
\* False and leaves the containers and the cache directories as they were.
C9_NotContainerNoOp ==
    /\ [][\A i \in 1..Len(services) :
            (CleanupStep(i) /\ services[i].provided_by # "container")
                => /\ lastCleanup'.ret = "False"
                   /\ lastCleanup'.destroyed = 0
                   /\ DockerUnchanged]_vars
    /\ [][(CleanupInProvide /\ call'.inst.provided_by # "container")
                => call'.destroyed = 0 /\ DockerUnchanged]_vars

\* the cleanup of a service of the localhost provider returned False
C9_Witness ==
    /\ lastCleanup.idx # 0
    /\ services[lastCleanup.idx].provided_by = "localhost"
    /\ lastCleanup.ret = "False"

\* the caller's cleanup() of a service whose container this run created
CleanupOfNew(i) ==
    /\ CleanupStep(i)
    /\ services[i].provided_by = "container"
    /\ services[i].container_info.new

\* C10 as claimed: cleanup of a container-provided instance with new = True
\* destroys the container once and returns True, and afterwards neither the
\* container nor its cache directory exists.
C10_DestroyedWithCache ==
    /\ [][\A i \in 1..Len(services) :
            CleanupOfNew(i)
                => /\ lastCleanup'.ret = "True"
                   /\ lastCleanup'.destroyed = 1
                   /\ containers'[services[i].container_info.name] = "absent"
                   /\ cache_directory(services[i].container_info.name) \notin cache']_vars
    /\ [][(/\ CleanupInProvide
           /\ call'.inst.provided_by = "container"
           /\ call'.inst.container_info.new)
                => /\ call'.destroyed = 1
                   /\ containers'[call'.inst.container_info.name] = "absent"
                   /\ cache_directory(call'.inst.container_info.name) \notin cache']_vars

\* C10 amended: cleanup of a container-provided instance with new = True
\* destroys the container once and returns True, and afterwards the
\* container does not exist; its cache directory does not exist either when
\* its removal succeeded, and is left as it was when the removal failed.
C10_DestroyedOnce ==
    /\ [][\A i \in 1..Len(services) :
            CleanupOfNew(i)
                => /\ lastCleanup'.ret = "True"
                   /\ lastCleanup'.destroyed = 1
                   /\ containers'[services[i].container_info.name] = "absent"
                   /\ \A n \in Names \ {services[i].container_info.name} :
                         containers'[n] = containers[n]
                   /\ IF lastCleanup'.rm_ok
                      THEN cache' = cache \ {cache_directory(services[i].container_info.name)}
                      ELSE cache' = cache]_vars
    /\ [][(/\ CleanupInProvide
           /\ call'.inst.provided_by = "container"
           /\ call'.inst.container_info.new)
                => /\ call'.destroyed = 1
                   /\ containers'[call'.inst.container_info.name] = "absent"]_vars

\* the PostgreSQL container this run created and its cache directory are
\* gone after the cleanup of the service
C10_Witness ==
    /\ lastCleanup.idx # 0
    /\ services[lastCleanup.idx].provided_by = "container"
    /\ services[lastCleanup.idx].container_info.new
    /\ services[lastCleanup.idx].container_info.data_dir # NoDir
    /\ lastCleanup.ret = "True"
    /\ lastCleanup.destroyed = 1
    /\ lastCleanup.rm_ok
    /\ containers[services[lastCleanup.idx].container_info.name] = "absent"
    /\ services[lastCleanup.idx].container_info.data_dir \notin cache

(***************************************************************************)
(* Properties of _ensure_container                                         *)
(***************************************************************************)
\* the call of ensure that follows a call for the same image and
\* application id
SameAsPrev ==
    /\ ens.pc # "idle"
    /\ ens.prev.image = ens.image
    /\ ens.prev.application_id = ens.application_id

\* C11: when the forwarded port never accepts a connection within the
\* retries and this call created the container, the call ends by raising
\* ContainerRefusingConnection, and the container it created is gone by then.
C11_DestroyedBeforeRefusing ==
    (ens.pc = "done" /\ ens.port_never_open /\ ens.created)
        => /\ ens.outcome = "raised"
           /\ ens.exc.name = "ContainerRefusingConnection"
           /\ ens.destroys = 1
           /\ containers[ens.container_name] = "absent"

\* C12: a call of ensure that follows a successful call for the same image
\* and application id creates no container and destroys none, and when it
\* returns, it returns the same container name with new = False.
C12_SecondEnsureReuses ==
    (SameAsPrev /\ ens.prev.outcome = "returned")
        => /\ ens.creates = 0
           /\ ens.destroys = 0
           /\ ens.outcome = "returned"
                 => /\ ens.info.name = ens.prev.info.name
                    /\ ens.info.name = container_name_for(ens.image, ens.application_id)
                    /\ ~ens.info.new

\* the first call created the container, the second one returned it with
\* new = False
C12_Witness ==
    /\ SameAsPrev
    /\ ens.prev.outcome = "returned"
    /\ ens.prev.info.new
    /\ ens.pc = "done"
    /\ ens.outcome = "returned"
    /\ ens.info.name = ens.prev.info.name
    /\ ~ens.info.new

\* C13: when Docker answers, no container of the derived name exists and the
\* image is not present locally, ensure fails with DockerImageRequired whose
\* command is "docker pull <image>", and it creates and starts no container.
C13_ImageRequired ==
    (ens.pc # "idle" /\ ens.daemon /\ ~ens.existed /\ ~ens.image_present)
        => /\ ens.pc \in {"get", "done"}
           /\ ens.creates = 0
           /\ ens.starts = 0
           /\ containers[ens.container_name] = "absent"
           /\ ens.pc = "done"
                 => /\ ens.outcome = "raised"
                    /\ ens.exc.name = "DockerImageRequired"
                    /\ ens.exc.command =
                          <<"d","o","c","k","e","r"," ","p","u","l","l"," ">> \o ens.image

\* the call for the PostgreSQL image ended with the command
\* "docker pull paintedfox/postgresql"
C13_Witness ==
    /\ ens.pc = "done"
    /\ ens.daemon /\ ~ens.existed /\ ~ens.image_present
    /\ ens.image = PostgreSQLImage
    /\ ens.exc.name = "DockerImageRequired"
    /\ ens.exc.command =
          <<"d","o","c","k","e","r"," ","p","u","l","l"," ",
            "p","a","i","n","t","e","d","f","o","x","/","p","o","s","t","g","r","e","s","q","l">>
    /\ containers[ens.container_name] = "absent"

\* C14: over any sequence of calls of ensure, killed ones included, no
\* second container is asked for under a name that is in use: a call creates
\* at most one container and only when none of the name existed, and a call
\* that finds one (left by a killed call or not) creates none and reports
\* new = False if it returns.
C14_NeverDuplicated ==
    /\ ~ens.conflict
    /\ ens.creates <= 1
    /\ ens.creates = 1 => ~ens.existed
    /\ (ens.pc # "idle" /\ ens.existed)
          => /\ ens.creates = 0
             /\ ens.outcome = "returned" => ~ens.info.new

\* the call before was killed after it had created the container; this call
\* found that container and returned it with new = False
C14_Witness ==
    /\ SameAsPrev
    /\ ens.prev.outcome = "interrupted"
    /\ ens.prev.created
    /\ ens.existed
    /\ ens.pc = "done"
    /\ ens.outcome = "returned"
    /\ ~ens.info.new
    /\ ens.creates = 0

(***************************************************************************)
(* Properties of the availability classifier                               *)
(***************************************************************************)
Temporary(cls, o) == o \in RaisedErrors /\ Catches(TEMPORARY_AVAILABILITY_ERRORS(cls), o)
Permanent(cls, o) == o \in RaisedErrors /\ Catches(PERMANENT_AVAILABILITY_ERRORS(cls), o)

\* attempt j is made: it is within the retries and the script, and every
\* attempt before it returned False or raised a temporary error
Reached(j) ==
    /\ j \in 1..wt.retries
    /\ j <= Len(wt.outs)
    /\ \A i \in 1..(j - 1) : wt.outs[i] = "False" \/ Temporary(wt.cls, wt.outs[i])

\* C15: when check_available raises temporary errors on its first k calls
\* and returns True on the next, wait_until_available(retries) with
\* retries > k returns True, after k + 1 calls.
C15_TrueAfterTemporaryErrors ==
    wt.pc = "waited" =>
        \A k \in 0..(Len(wt.outs) - 1) :
            (/\ \A i \in 1..k : Temporary(wt.cls, wt.outs[i])
             /\ wt.outs[k + 1] = "True"
             /\ wt.retries > k)
            => /\ wt.waited.ret = "True"
               /\ wt.waited.exc = None
               /\ wt.waited.calls = k + 1

\* five socket errors, then True, with retries = 10
C15_Witness ==
    /\ wt.pc = "waited"
    /\ wt.cls = "Email"
    /\ wt.retries = 10
    /\ wt.outs = FailThenTrue("SocketError", 5)
    /\ wt.waited.ret = "True"
    /\ wt.waited.calls = 6

\* C16: when check_available raises a temporary error on every one of the
\* retries attempts, wait_until_available returns False and raises nothing,
\* whatever the service class.
C16_FalseWhenRetriesExhausted ==
    (/\ wt.pc = "waited"
     /\ wt.retries >= 1
     /\ wt.retries <= Len(wt.outs)
     /\ \A i \in 1..wt.retries : Temporary(wt.cls, wt.outs[i]))
    => wt.waited.ret = "False" /\ wt.waited.exc = None

\* C17 as claimed: when check_available raises a permanent error on an
\* attempt that is made, wait_until_available calls it no more, reports the
\* error and returns False.
C17_PermanentStopsPolling ==
    wt.pc = "waited" =>
        \A j \in 1..Len(wt.outs) :
            (Reached(j) /\ Permanent(wt.cls, wt.outs[j]))
            => /\ wt.waited.ret = "False"
               /\ wt.waited.exc = None
               /\ wt.waited.reported = wt.outs[j]
               /\ wt.waited.calls = j

\* C17 amended: an error of the permanent tuple that the temporary tuple
\* does not catch stops the polling at its attempt, is reported and gives
\* False; an error both tuples catch is polled through like a temporary one
\* and is reported, with False, only when it is raised on the last attempt.
C17_PermanentOnlyStopsPolling ==
    wt.pc = "waited" =>
        \A j \in 1..Len(wt.outs) :
            (Reached(j) /\ Permanent(wt.cls, wt.outs[j]))
            => IF ~Temporary(wt.cls, wt.outs[j]) \/ j = wt.retries
               THEN /\ wt.waited.ret = "False"
                    /\ wt.waited.exc = None
                    /\ wt.waited.reported = wt.outs[j]
                    /\ wt.waited.calls = j
               ELSE /\ wt.waited.calls > j
                    /\ wt.waited.reported # wt.outs[j] \/ wt.waited.calls = wt.retries

\* PostgreSQL: psql missing (CalledProcessError) on the second of three
\* attempts, after a ProviderNotAvailable on the first
C17_Witness ==
    /\ wt.pc = "waited"
    /\ wt.cls = "PostgreSQL"
    /\ wt.retries = 3
    /\ wt.outs = <<"ProviderNotAvailable", "CalledProcessError", "True">>
    /\ wt.waited.ret = "False"
    /\ wt.waited.reported = "CalledProcessError"
    /\ wt.waited.calls = 2

AvailableRaised == {k \in 1..Len(call.tried) : call.tried[k].result = "available raised"}

\* C19: when available() raises in provide, cleanup() has been called on
\* that instance, once, by the time the exception leaves provide (a container
\* the provider created for it is gone), the exception is the one available()
\* raised, and no provider after that one is tried; cleanup() is called in
\* provide in no other case.
C19_CleanupBeforeReraise ==
    call.pc # "idle" =>
        /\ call.cleanups = Cardinality(AvailableRaised)
        /\ \A k \in AvailableRaised :
              /\ Done
              /\ k = Len(call.tried)
              /\ call.idx = k
              /\ call.cleanups = 1
              /\ call.outcome = "raised"
              /\ call.exc = call.tried[k].exc
              /\ call.inst.built_by = call.tried[k].provider
              /\ (call.inst.provided_by = "container" /\ call.inst.container_info.new)
                    => /\ call.destroyed = 1
                       /\ containers[call.inst.container_info.name] = "absent"

\* Redis: the check of the instance of the container provider ended in
\* EOFError; the container this call created was destroyed by the cleanup
C19_Witness ==
    /\ Done
    /\ call.cls = "Redis"
    /\ LastTried = Tried("container", "available raised", "EOFError")
    /\ call.inst.container_info.new
    /\ call.cleanups = 1
    /\ call.destroyed = 1
    /\ call.exc = "EOFError"
    /\ containers[call.inst.container_info.name] = "absent"

(***************************************************************************)
(* Properties of Driver.environment                                        *)
(***************************************************************************)
\* the services whose environment() has key k
Supplying(k) == {i \in 1..Len(drv.services) : drv.services[i][k] # None}

\* C20: in the environment handed to the target a key of the added
\* environment has the added value, whatever the services and the base
\* environment give it; any other key a service supplies has the value of
\* the last service supplying it, whatever the base environment gives it;
\* the remaining keys are those of the base environment, unchanged.
C20_AddedOverServicesOverBase ==
    drv.pc = "done" =>
        \A k \in EnvKeys :
            IF drv.added_environment[k] # None
            THEN drv.env[k] = drv.added_environment[k]
            ELSE IF Supplying(k) # {}
            THEN \E i \in Supplying(k) :
                    /\ \A j \in Supplying(k) : j <= i
                    /\ drv.env[k] = drv.services[i][k]
            ELSE drv.env[k] = base_environment[k]

\* a service sets ENVIRONMENT and BAR; BAR=additional is added: BAR has the
\* added value, ENVIRONMENT the service's and not the base's dev_local
C20_Witness ==
    /\ drv.pc = "done"
    /\ Len(drv.services) = 1
    /\ drv.services[1]["BAR"] = "other"
    /\ drv.services[1]["ENVIRONMENT"] = "other"
    /\ drv.added_environment["BAR"] = "additional"
    /\ drv.added_environment["ENVIRONMENT"] = None
    /\ drv.env["BAR"] = "additional"
    /\ drv.env["ENVIRONMENT"] = "other"
    /\ drv.env["SITE_PROTOCOL"] = "http"

\* C21: when the provisioning of a requested service raises
\* ImproperlyConfigured, Forklift.main returns a non-zero status and
\* driver.run() is never invoked; and whenever driver.run() has been invoked
\* every requested service had been provided before, in the order requested.
C21_RunOnlyAfterAllProvided ==
    /\ fk.failed # 0 =>
          /\ fk.runs = 0
          /\ fk.pc = "returned"
          /\ fk.status # 0
          /\ fk.status # NoStatus
    /\ fk.runs > 0 =>
          /\ fk.failed = 0
          /\ fk.run_services = [i \in 1..Len(fk.required) |-> i]
          /\ \A i \in 1..Len(fk.required) : fk.required[i] = "provided"

\* three services are required, the first two are provided, the third raises
\* ImproperlyConfigured: main has returned 1 and the target was not launched
C21_Witness ==
    /\ fk.pc = "returned"
    /\ Len(fk.required) = 3
    /\ fk.failed = 3
    /\ Len(fk.services) = 2
    /\ fk.status = 1
    /\ fk.runs = 0

\* the satellite exists: start_satellite has forked
Forked == sat.scenario = "start_satellite" /\ sat.pc \notin {"idle", "start"}

\* wait_for_pid has returned to its caller
WaitReturned == sat.pc \in {"returned", "stopped", "exited"}

\* C22: once the Forklift process that called start_satellite has exited,
\* the satellite eventually calls the stop callback, if one was given, and
\* exits, wherever the parent's exit falls between the fork and the
\* satellite's lookup of its parent pid.
C22_SatelliteExitsAfterParent ==
    (Forked /\ sat.target # "running")
        ~> (sat.pc = "exited" /\ (sat.stop # "None" => sat.stops = 1))

\* C23: the satellite calls stop and exits only when the Forklift process
\* that started it is no longer running, it calls stop at most once, and
\* the caller of start_satellite has returned from it as soon as the
\* satellite exists, whatever the satellite is doing.
C23_StopOnlyAfterParent ==
    /\ sat.pc \in {"stopped", "exited"} => sat.target # "running"
    /\ sat.stops <= 1
    /\ sat.stops = 1 => sat.pc \in {"stopped", "exited"} /\ sat.stop # "None"
    /\ Forked => sat.caller = "returned"

\* the satellite found its parent running, slept, saw it terminated, called
\* the stop callback once and exited with the status stop returned
C23_Witness ==
    /\ Forked
    /\ sat.pc = "exited"
    /\ sat.pid = "target"
    /\ sat.slept
    /\ sat.stop = "returns_3"
    /\ sat.stops = 1
    /\ sat.exit = 3
    /\ sat.target # "running"

\* the caller of start_satellite has returned while the satellite has not
\* yet looked up its parent
C23_CallerContinues ==
    /\ Forked
    /\ sat.pc = "forked"
    /\ sat.caller = "returned"

\* C24: wait_for_pid(pid) has returned only if process pid is not running
\* any more, and once process pid has terminated wait_for_pid(pid) returns,
\* for a pid that is a child of the caller and for one that is not.
C24_ReturnsOnceTerminated ==
    /\ [](WaitReturned => sat.pid = "target" /\ sat.target # "running")
    /\ \A scenario \in Scenarios :
          (/\ sat.scenario = scenario
           /\ sat.pc \notin {"idle", "start", "forked"}
           /\ sat.pid = "target"
           /\ sat.target # "running") ~> WaitReturned

\* a process that is not the parent of pid polled it while it ran, slept,
\* and returned after it had terminated
C24_Witness ==
    /\ sat.scenario = "wait_for_parent"
    /\ sat.pc = "returned"
    /\ sat.slept
    /\ sat.target = "zombie"

\* the parent of pid waited in os.waitpid while the child ran and returned
\* after collecting it
C24_WitnessChild ==
    /\ sat.scenario = "wait_for_child"
    /\ sat.pc = "returned"
    /\ sat.blocked
    /\ ~sat.slept
    /\ sat.target = "gone"

\* a service has been constructed and no part has been assigned yet
Constructed == url.pc = "ready" /\ url.sets = 0

\* the pipe-joined string the service was constructed from
Joined == join(url.input, <<"|">>)

\* a URL string with a lower-case scheme and no empty query or fragment
IsNormal(s) ==
    LET colon == partition(s, ":")
        f == partition(s, "#")
        q == partition(f[1], "?")
    IN  /\ colon[1] = lower(colon[1])
        /\ f[2] # <<>> => f[3] # <<>>
        /\ q[2] # <<>> => q[3] # <<>>

OtherParts(part) == {"user", "password", "host", "port", "path"} \ {part}

\* the last assignment was made to a part of a URLService and did not raise
AssignedTo(parts) ==
    /\ url.cls = "URLService"
    /\ url.sets > 0
    /\ url.last.part \in parts

\* C26: after k values have been assigned to host or port there are exactly
\* k endpoints, in the order of the values, each with its value for that
\* part and otherwise equal to the former first endpoint; and when the same
\* values are assigned a second time the endpoints stay as they were.
C26_MultiValueSet ==
    AssignedTo(multi_parts) =>
        LET vs == pipe_split(url.last.value) IN
        /\ url.pc = "ready"
        /\ Len(url.urls) = Len(vs)
        /\ \A i \in 1..Len(url.urls) :
              /\ get_part(url.urls[i], url.last.part) = vs[i]
              /\ \A q \in OtherParts(url.last.part) :
                    get_part(url.urls[i], q) = get_part(url.prev[1], q)
              /\ url.urls[i].scheme = url.prev[1].scheme
              /\ url.urls[i].query = url.prev[1].query
        /\ url.before = url.last => url.urls = url.prev

\* the endpoint the i-th endpoint was made from by the last assignment
Former(i) == IF url.last.part \in multi_parts THEN url.prev[1] ELSE url.prev[i]

\* C27: an assignment to host or port leaves user, password and path of
\* every endpoint as they were, and an assignment to user or password
\* leaves host, port and path of every endpoint as they were.
C27_OtherPartsUnchanged ==
    AssignedTo(multi_parts \cup single_parts) /\ url.pc = "ready" =>
        \A i \in 1..Len(url.urls) :
            \A q \in (IF url.last.part \in multi_parts
                      THEN {"user", "password", "path"}
                      ELSE {"host", "port", "path"}) :
                get_part(url.urls[i], q) = get_part(Former(i), q)

\* C28: after a single host has been assigned to an Elasticsearch service
\* constructed with two URLs there is exactly one endpoint, with that host
\* and the port of the former first endpoint, and ELASTICSEARCH_URLS is the
\* one URL 'http://<host>:9200'.
C28_ElasticsearchOneEndpoint ==
    /\ url.cls = "Elasticsearch"
    /\ Len(url.input) = 2
    /\ url.sets = 1
    /\ url.last.value = <<<<"c">>>>
    /\ port_number(url.prev[1]) = 9200
    => /\ url.pc = "ready"
       /\ Len(url.urls) = 1
       /\ get_part(url.urls[1], "host") = <<"c">>
       /\ port_number(url.urls[1]) = port_number(url.prev[1])
       /\ ELASTICSEARCH_URLS(url.urls) = <<"h", "t", "t", "p", ":", "/", "/", "c", ":", "9", "2", "0", "0">>

\* the instance the factory of a provider builds, with the host the call's
\* overrides give it
Overridden(provider) ==
    LET built == Instance(call.cls, ProviderHost(call.cls, provider), provider) IN
    IF call.overrides["host"] # None /\ "host" \in allow_override(call.cls)
    THEN [built EXCEPT !.host = call.overrides["host"]]
    ELSE built

\* C29: the availability check that selects or rejects a provider in provide
\* is made on the instance with the overrides applied: a provider was found
\* available only if check_available can return True for the overridden
\* instance, and unavailable only if it can fail for it; and the instance
\* provide returns has every allowed override that is not None set to the
\* value supplied.
C29_OverridesBeforeAvailable ==
    /\ \A i \in 1..Len(call.tried) :
          /\ call.tried[i].result = "available"
                => "True" \in check_available(Overridden(call.tried[i].provider))
          /\ call.tried[i].result = "unavailable"
                => check_available(Overridden(call.tried[i].provider)) # {"True"}
    /\ ReturnedService =>
          \A key \in Keys :
              call.overrides[key] # None
                  => /\ key \in allow_override(call.cls) \cup allow_override_list(call.cls)
                     /\ key = "host" => call.inst.host = call.overrides[key]

\* Syslog's manual provider, which has no host of its own, is selected
\* because the host override makes it available, and the instance returned
\* has the host supplied
C29_Witness ==
    /\ ReturnedService
    /\ call.cls = "Syslog"
    /\ call.overrides["host"] = "v"
    /\ call.inst.provided_by = "manual"
    /\ call.inst.host = "v"
    /\ LastTried.result = "available"

\* C30: the port of the ContainerInfo that ensure returns is the host port
\* Docker forwards to the container, which ensure looked up and polled.
C30_InfoPortIsForwardedPort ==
    ens.pc = "done" /\ ens.outcome = "returned" => ens.info.port = ens.host_port

(***************************************************************************)
(* Properties of wait_for                                                  *)
(***************************************************************************)
\* attempt j of the wait_for call returned a falsy value or raised an
\* exception that was expected
PassedOver(j) == wt.outs[j] = "False" \/ Catches(wt.expected, wt.outs[j])

\* C31: wait_for(func, expected_exceptions, retries) with retries >= 1 calls
\* func at least once and at most retries times; every call before the last
\* one made returned a falsy value or raised an expected exception; a truthy
\* result ends the loop and is returned; an expected exception is re-raised
\* only on attempt number retries; a falsy result is returned only from
\* attempt number retries.
C31_WaitForBounds ==
    (wt.pc = "polled" /\ wt.retries >= 1) =>
        LET n == wt.polled.calls
            o == wt.outs[n] IN
        /\ n \in 1..wt.retries
        /\ \A j \in 1..(n - 1) : PassedOver(j)
        /\ o = "True" => wt.polled.ret = "True" /\ wt.polled.exc = None
        /\ o = "False" => n = wt.retries /\ wt.polled.ret = "False" /\ wt.polled.exc = None
        /\ o \in RaisedErrors => wt.polled.exc = o /\ wt.polled.ret = None
        /\ Catches(wt.expected, o) => n = wt.retries

\* socket errors are swallowed on the first two of three attempts and the
\* one of the third attempt is re-raised, after three calls
C31_Witness ==
    /\ wt.pc = "polled"
    /\ wt.retries = 3
    /\ wt.expected = {socket_error}
    /\ wt.outs = <<"SocketError", "False", "SocketError">>
    /\ wt.polled = Polled(None, "SocketError", 3)

(***************************************************************************)
(* Properties of _ensure_container on a container that exists              *)
(***************************************************************************)
\* the call found the named container stopped and started it
StartedExisting == ens.starts = 1 /\ ens.existed /\ ~ens.created

\* C32: a call of ensure that finds the named container stopped starts it
\* and destroys nothing; when it returns it reports new = False, and when
\* the port never opens it ends by raising ContainerRefusingConnection, the
\* container still being there.
C32_StoppedStartedAndKept ==
    (ens.pc = "done" /\ StartedExisting) =>
        /\ ens.destroys = 0
        /\ containers[ens.container_name] = "running"
        /\ ens.outcome = "returned" => ens.info.new = FALSE
        /\ ens.port_never_open =>
              /\ ens.outcome = "raised"
              /\ ens.exc.name = "ContainerRefusingConnection"

(***************************************************************************)
(* Properties of ContainerRecycler                                         *)
(***************************************************************************)
\* C33: recycle_containers without include_running removes no container
\* that is running when the removal command removes it, whatever containers
\* start or stop between the two listings and the removal.
C33_RunningNeverRemoved ==
    (rec.pc = "done" /\ ~rec.include_running) => rec.removed_running = {}

(***************************************************************************)
(* Properties of Docker.environment                                        *)
(***************************************************************************)
\* the hosts, without their ports, that the environment of a service names
ExposedHosts(service) ==
    {split(split(environment_hosts(service), "|")[i], ":")[1] :
        i \in 1..Len(split(environment_hosts(service), "|"))}

\* C34: after Docker.environment, no service with 'host' in allow_override
\* names localhost in its environment: one that did names the docker0
\* address instead, and a service with other hosts is as it was given.
C34_NoLocalhostLeft ==
    dk.pc = "done" =>
        \A i \in 1..Len(dk.services) :
            "host" \in allow_override(dk.services[i].cls) =>
                /\ localhost \notin ExposedHosts(dk.services[i])
                /\ IF localhost \in ExposedHosts(dk.given[i])
                   THEN ExposedHosts(dk.services[i]) = {docker0}
                   ELSE dk.services[i] = dk.given[i]

(***************************************************************************)
(* Properties of PostgreSQL.container                                      *)
(***************************************************************************)
\* C35: for every non-empty application id, PostgreSQL.container goes on to
\* ensure the container, with a user made of the characters [a-z0-9_] only
\* that does not start with a digit.
C35_UserWellFormed ==
    pg.pc \notin {"idle", "called"} =>
        /\ pg.pc = "ensure"
        /\ \A i \in 1..Len(pg.user) :
              \/ \E j \in 1..26 : ascii_lowercase[j] = pg.user[i]
              \/ \E j \in 1..10 : digits[j] = pg.user[i]
              \/ pg.user[i] = "_"
        /\ ~isdigit(<<pg.user[1]>>)

(***************************************************************************)
(* Properties of the failing paths of Service.provide                      *)
(***************************************************************************)
\* C36: when provide ends by raising, every container that the call created
\* has been destroyed.
C36_FailedProvideLeavesNothing ==
    (Done /\ call.outcome = "raised") =>
        \A n \in call.created : containers[n] = "absent"

(***************************************************************************)
(* Properties of the container names                                       *)
(***************************************************************************)
\* C38: distinct (image, application_id) pairs never get the same container
\* name, nor the same cache directory.
C38_DistinctPairsDistinctNames ==
    (nm.pc = "named" /\ nm.pairs[1] # nm.pairs[2]) =>
        /\ nm.container_names[1] # nm.container_names[2]
        /\ nm.cache_dirs[1] # nm.cache_dirs[2]

(***************************************************************************)
(* Properties of Redis.check_available                                     *)
(***************************************************************************)
\* C39: check_available returns True only if the server answered with the
\* expected PONG within the timeout.
C39_AvailableOnlyAfterPong ==
    (rd.pc = "done" /\ rd.result.ret = "True") =>
        find_bytes(rd.reply, PONG, 1) > 0

(***************************************************************************)
(* Properties of two concurrent invocations                                *)
(***************************************************************************)
\* C37 as stated: the container of a service that an invocation holds is
\* never removed by the other invocation.
C37_HeldContainerNeverDestroyed ==
    \A p \in Invocations : ~cc.inv[p].lost

\* C37: the container of a service that an invocation holds and that this
\* invocation created (container_info.new) is never removed by the other
\* invocation; an invocation destroys a container only if it created it.
C37_OwnContainerNeverDestroyed ==
    \A p \in Invocations : cc.inv[p].lost => ~cc.inv[p].new

\* an invocation holds the service of the container it created, which runs,
\* after the other invocation has ended its cleanup or its failed ensure
C37_Witness ==
    \E p \in Invocations :
        /\ cc.inv[p].pc = "ready"
        /\ cc.inv[p].new
        /\ ~cc.inv[p].lost
        /\ cc.inv[Other(p)].pc = "done"
        /\ cc.inv[Other(p)].outcome \in {"cleaned", "raised"}
        /\ containers[cc.container_name] = "running"

====
